---------------------------- MODULE Spec2Model ----------------------------
(***************************************************************************)
(* State-machine model of the configurable hash table engine               *)
(* (src/src/algorithm/HashTable.ts, the class HashTable of lines 748-1540),*)
(* and of the skip list, the binary search tree and the self-organizing    *)
(* linked list of the same repository (the last sections of the module).   *)
(*                                                                         *)
(* Strings are modelled by the sequence of their UTF-16 character codes,   *)
(* so that charCodeAt(i) is key[i+1].  Array indices of the code are       *)
(* 0-based; the sequences of the model are 1-based, so that slot i of the  *)
(* code is buckets[i+1].                                                   *)
(***************************************************************************)
EXTENDS Integers, Sequences, FiniteSets, TLC

VARIABLES
    buckets,              \* this.buckets
    size,                 \* this.size (requested size)
    tableSize,            \* this.tableSize (effective array length)
    hashingStrategy,      \* this.hashingStrategy
    collisionResolution,  \* this.collisionResolution
    itemCount,            \* this.itemCount
    universal_p,          \* this.universal_p
    universal_a,          \* this.universal_a
    universal_b,          \* this.universal_b
    double_hashing_R,     \* this.double_hashing_R
    last,                 \* the last call made and what it returned
    skipList,             \* a SkipList: head.next and the nodes linked from it
    bst,                  \* a BST: this.root
    bfs,                  \* the searchBFS call in progress: its queue
    linkedList            \* a LinkedListLogic: this.head and the nodes' next

vars == <<buckets, size, tableSize, hashingStrategy, collisionResolution,
          itemCount, universal_p, universal_a, universal_b, double_hashing_R,
          last, skipList, bst, bfs, linkedList>>

tableVars == <<buckets, size, tableSize, hashingStrategy, collisionResolution,
               itemCount, universal_p, universal_a, universal_b,
               double_hashing_R>>

\* The other structures of the repository.
otherVars == <<skipList, bst, bfs, linkedList>>

-----------------------------------------------------------------------------
(* Bounds of the model.                                                    *)

\* Largest size a caller requests of the constructor or of resize.
MaxRequestedSize == 3

\* The keys the callers use: "a", "b", "ab".
Keys == { <<97>>, <<98>>, <<97, 98>> }

\* The values the callers store.
Values == { "x", "y" }

\* The sizes a caller passes: 0, which Math.max clamps to 1, and the two
\* largest.
RequestedSizes == { 0, MaxRequestedSize - 1, MaxRequestedSize }

\* The outcomes of one call of Math.random(), a number in [0, 1), as
\* <<numerator, denominator>>: the least outcome and one close to the greatest.
RandomSamples == { <<0, 1>>, <<99, 100>> }

-----------------------------------------------------------------------------
(* The other structures as their constructors leave them.  A node is named *)
(* by its value (no structure holds a value twice), null by 0, so that the *)
(* values stored are positive.                                             *)

\* null, as a pointer to a node.
NullNode == 0

\* The maxLevel of new SkipList<number>().
DefaultMaxLevel == 4

\* new SkipList(maxLevel): the head node has maxLevel null pointers.
SkipList(maxLevel) ==
    [maxLevel |-> maxLevel,
     head |-> [i \in 1 .. maxLevel |-> NullNode],
     nodes |-> <<>>]

\* null, as a subtree.
NullTree == <<>>

\* new BST()
BST == [root |-> NullTree]

\* No searchBFS call is in progress.
NoSearch == [active |-> FALSE]

\* new LinkedListLogic()
LinkedListLogic == [head |-> NullNode, next |-> <<>>]

-----------------------------------------------------------------------------
(* Enums and sentinels.                                                    *)

Simple == "SIMPLE"
Universal == "UNIVERSAL"
HashingStrategy == { Simple, Universal }

Chaining == "CHAINING"
LinearProbing == "LINEAR_PROBING"
DoubleHashing == "DOUBLE_HASHING"
CollisionResolution == { Chaining, LinearProbing, DoubleHashing }

\* A slot of a probing table holding null.
NullSlot == [tag |-> "null", key |-> <<>>, value |-> ""]

\* The one DELETED_MARKER object; the code recognises it by reference, which
\* the tag models (a node built from a key is never this object).
DELETED_MARKER == [tag |-> "deleted", key |-> <<>>, value |-> "__DELETED__"]

\* Mutant of HashTableNode: the node is built without the value.
HashTableNode_Blank(key, value) == [tag |-> "node", key |-> key, value |-> ""]

\* new HashTableNode(key, value)
HashTableNode(key, value) == [tag |-> "node", key |-> key, value |-> value]

\* The null of `value: string | null`.
NullValue == "<null>"

\* The null of `finalIndex: number | null` (no array index is negative; -1 is
\* the code's own "failed" index of set and of _findSlot).
NullIndex == -2

\* universal_p as the field initialiser sets it.
DefaultUniversalP == 10000019

-----------------------------------------------------------------------------
(* Arithmetic helpers.                                                     *)

\* The % of JavaScript: the result takes the sign of the dividend.
JsMod(x, m) == IF x >= 0 THEN x % m ELSE -((-x) % m)

Max(x, y) == IF x >= y THEN x ELSE y

Abs(x) == IF x >= 0 THEN x ELSE -x

RECURSIVE IsPrimeLoop(_, _)
IsPrimeLoop(num, i) ==
    IF i * i <= num
    THEN IF JsMod(num, i) = 0 \/ JsMod(num, i + 2) = 0
         THEN FALSE
         ELSE IsPrimeLoop(num, i + 6)
    ELSE TRUE

\* Mutant of isPrime: the test of divisibility by 2 is missing.
isPrime_NoEvenTest(num) ==
    IF num <= 1 THEN FALSE
    ELSE IF num <= 3 THEN TRUE
    ELSE IF JsMod(num, 3) = 0 THEN FALSE
    ELSE IsPrimeLoop(num, 5)

isPrime(num) ==
    IF num <= 1 THEN FALSE
    ELSE IF num <= 3 THEN TRUE
    ELSE IF JsMod(num, 2) = 0 \/ JsMod(num, 3) = 0 THEN FALSE
    ELSE IsPrimeLoop(num, 5)

RECURSIVE FindNextPrimeLoop(_, _)
FindNextPrimeLoop(num, prime) ==
    IF isPrime(prime) THEN prime
    ELSE IF prime + 1 > num * 2 /\ prime + 1 > 1000000 THEN num * 2
    ELSE FindNextPrimeLoop(num, prime + 1)

\* Mutant of findNextPrime: the search starts above num, so that a prime
\* size gets the next prime.
findNextPrime_Above(num) ==
    IF num < 2 THEN 2 ELSE FindNextPrimeLoop(num + 1, num + 1)

\* The smallest prime >= num.
findNextPrime(num) == IF num <= 2 THEN 2 ELSE FindNextPrimeLoop(num, num)

RECURSIVE FindPrevPrimeLoop(_)
FindPrevPrimeLoop(prime) ==
    IF prime > 1
    THEN IF isPrime(prime) THEN prime ELSE FindPrevPrimeLoop(prime - 1)
    ELSE 1

\* Mutant of findPrevPrime: the search starts at num itself.
findPrevPrime_Inclusive(num) ==
    IF num < 2 THEN 1 ELSE FindPrevPrimeLoop(num)

\* The largest prime < num, 1 when there is none.
findPrevPrime(num) == IF num <= 2 THEN 1 ELSE FindPrevPrimeLoop(num - 1)

-----------------------------------------------------------------------------
(* The table as one value: the operations below are functions from a table *)
(* (and the call's arguments) to the table after the call and the result.  *)

This ==
    [buckets |-> buckets, size |-> size, tableSize |-> tableSize,
     hashingStrategy |-> hashingStrategy,
     collisionResolution |-> collisionResolution,
     itemCount |-> itemCount,
     universal_p |-> universal_p, universal_a |-> universal_a,
     universal_b |-> universal_b, double_hashing_R |-> double_hashing_R]

needsPrimeSize(collision) ==
    collision = LinearProbing \/ collision = DoubleHashing

\* Mutant of initializeBuckets: the reset of itemCount is missing.
initializeBuckets_KeepCount(t) ==
    [t EXCEPT
        !.buckets = IF t.collisionResolution = Chaining
                    THEN [i \in 1 .. t.tableSize |-> <<>>]
                    ELSE [i \in 1 .. t.tableSize |-> NullSlot]]

\* initializeBuckets(): fresh storage of tableSize slots, itemCount reset.
initializeBuckets(t) ==
    [t EXCEPT
        !.buckets = IF t.collisionResolution = Chaining
                    THEN [i \in 1 .. t.tableSize |-> <<>>]
                    ELSE [i \in 1 .. t.tableSize |-> NullSlot],
        !.itemCount = 0]

\* Mutant of RandomA: the + 1 is missing, so that universal_a may be 0.
RandomA_NoPlusOne(p, r) == (r[1] * (p - 1)) \div r[2]

\* Math.floor(Math.random() * (p - 1)) + 1 for the sample r of Math.random().
RandomA(p, r) == ((r[1] * (p - 1)) \div r[2]) + 1

\* Math.floor(Math.random() * p) for the sample r of Math.random().
RandomB(p, r) == (r[1] * p) \div r[2]

\* generateUniversalParams(); rnd is the pair of Math.random() samples drawn.
generateUniversalParams(t, rnd) ==
    LET p == findNextPrime(t.tableSize * 100)
    IN  [t EXCEPT !.universal_p = p,
                  !.universal_a = RandomA(p, rnd[1]),
                  !.universal_b = RandomB(p, rnd[2])]

\* Mutant of setDoubleHashingR: R is the table size itself.
setDoubleHashingR_TableSize(t) == [t EXCEPT !.double_hashing_R = t.tableSize]

\* Mutant of setDoubleHashingR: R is left as it is.
setDoubleHashingR_Stale(t) == t

\* setDoubleHashingR()
setDoubleHashingR(t) ==
    LET r == findPrevPrime(t.tableSize)
    IN  [t EXCEPT !.double_hashing_R = IF r <= 0 THEN 1 ELSE r]

RECURSIVE KeyToIntegerLoop(_, _, _, _)
KeyToIntegerLoop(key, modulus, i, hashValue) ==
    IF i > Len(key) THEN hashValue
    ELSE KeyToIntegerLoop(key, modulus, i + 1,
                          JsMod(hashValue * 31 + key[i], modulus))

\* keyToInteger(key): polynomial rolling hash modulo universal_p.
keyToInteger(t, key) ==
    LET modulus == IF t.universal_p > 1 THEN t.universal_p
                   ELSE DefaultUniversalP
    IN  Abs(KeyToIntegerLoop(key, modulus, 1, 0))

\* Mutant of ToIndex: the reduction modulo tableSize is missing.
ToIndex_Unreduced(hashValue, m) == hashValue

\* ((hashValue % tableSize) + tableSize) % tableSize: a hash value as an index.
ToIndex(hashValue, m) == JsMod(JsMod(hashValue, m) + m, m)

\* Mutant of Contribution: the position does not weigh the code.
Contribution_Unweighted(code, position) == code

\* charCode * (i + 1): what the character at position i + 1 adds.
Contribution(code, position) == code * position

RECURSIVE SimpleSteps(_, _, _, _)
\* The loop of the Simple strategy: the steps pushed from character i on.
SimpleSteps(key, i, subtotal, steps) ==
    IF i > Len(key) THEN steps
    ELSE LET contribution == Contribution(key[i], i)
         IN  SimpleSteps(key, i + 1, subtotal + contribution,
                 Append(steps, [char |-> key[i], code |-> key[i],
                                position |-> i,
                                subtotal |-> subtotal + contribution]))

\* The value of simpleHashValue after the loop.
SimpleSum(steps) == IF steps = <<>> THEN 0 ELSE steps[Len(steps)].subtotal

\* Mutant of hashSimpleInternal: the helper returns slot 0 and no steps.
hashSimpleInternal_Zero(t, key) == [initialIndex |-> 0, steps |-> <<>>]

\* hashSimpleInternal(key)
hashSimpleInternal(t, key) ==
    LET steps == SimpleSteps(key, 1, 0, <<>>)
        m == t.tableSize
    IN  [initialIndex |-> ToIndex(SimpleSum(steps), m),
         steps |-> steps]

\* Mutant of ParamsInvalid: every call of hash() under the universal strategy
\* regenerates the parameters.
ParamsInvalid_Always(t) == t.hashingStrategy = Universal

\* Whether hash() finds the universal parameters invalid and regenerates them.
ParamsInvalid(t) ==
    t.hashingStrategy = Universal /\ (t.universal_p <= 1 \/ t.universal_a < 1)

\* hash(key): the table after the call (the universal parameters are
\* regenerated when found invalid), the initial index and the steps
\* (<<>> stands for the absent steps field).
hash(t, key, rnd) ==
    LET m == t.tableSize
    IN  IF t.hashingStrategy = Simple
        THEN LET steps == SimpleSteps(key, 1, 0, <<>>)
             IN  [t |-> t,
                  initialIndex |-> ToIndex(SimpleSum(steps), m),
                  steps |-> steps]
        ELSE IF t.hashingStrategy = Universal
        THEN LET k == keyToInteger(t, key)
                 t1 == IF ParamsInvalid(t)
                       THEN generateUniversalParams(t, rnd) ELSE t
                 hashValue == JsMod(t1.universal_a * k + t1.universal_b,
                                    t1.universal_p)
             IN  [t |-> t1,
                  initialIndex |-> ToIndex(hashValue, m),
                  steps |-> <<>>]
        ELSE LET simpleHashResult == hashSimpleInternal(t, key)
             IN  [t |-> t,
                  initialIndex |-> simpleHashResult.initialIndex,
                  steps |-> simpleHashResult.steps]

\* hash2(key): the step of double hashing.
hash2(t, key) ==
    IF t.double_hashing_R <= 0 THEN 1
    ELSE t.double_hashing_R - JsMod(keyToInteger(t, key), t.double_hashing_R)

-----------------------------------------------------------------------------
(* Slot resolution and the core operations.                                *)

\* Mutant of IsNull: a DELETED_MARKER slot ends the search like null.
IsNull_OrDeleted(node) == node = NullSlot \/ node = DELETED_MARKER

\* currentNode === null
IsNull(node) == node = NullSlot

\* Mutant of IsDeleted: no slot is recognised as DELETED_MARKER.
IsDeleted_Never(node) == FALSE

\* currentNode === DELETED_MARKER
IsDeleted(node) == node = DELETED_MARKER

\* Mutant of SameKey: the node's key is compared with itself.
SameKey_Self(node, key) == node.key = node.key

\* currentNode.key === key (bucket[i].key === key under chaining)
SameKey(node, key) == node.key = key

\* Mutant of Exhausted: slot 0 instead of -1 when no slot is available.
Exhausted_Zero(firstAvailableIndex) ==
    IF firstAvailableIndex # -1 THEN firstAvailableIndex ELSE 0

\* What _findSlot returns as index when the loop ends without a null slot
\* and without the key: the first DELETED_MARKER slot seen, else -1.
Exhausted(firstAvailableIndex) ==
    IF firstAvailableIndex # -1 THEN firstAvailableIndex ELSE -1

\* Mutant of LoopDone: the loop condition is i <= m.
LoopDone_OneMore(i, m) == i > m

\* The negation of the loop condition i < m of _findSlot.
LoopDone(i, m) == i >= m

\* The slot probe i looks at:
\* (((initialIndex + i * step) % tableSize) + tableSize) % tableSize.
ProbeIndex(initialIndex, step, i, m) ==
    JsMod(JsMod(initialIndex + i * step, m) + m, m)

\* Mutant of FirstAvailable: the slot at hand replaces the one remembered.
FirstAvailable_Latest(firstAvailableIndex, probeIndex) == probeIndex

\* The first available slot once the probe at probeIndex found a null or
\* DELETED_MARKER slot: the one remembered, if any, else the slot at hand.
FirstAvailable(firstAvailableIndex, probeIndex) ==
    IF firstAvailableIndex = -1 THEN probeIndex ELSE firstAvailableIndex

RECURSIVE FindSlotLoop(_, _, _, _, _, _, _)
\* The probe loop of _findSlot from probe i on.
FindSlotLoop(t, key, initialIndex, step, i, probeSequence, firstAvailableIndex) ==
    LET m == t.tableSize
    IN  IF LoopDone(i, m)
        THEN [found |-> FALSE, index |-> Exhausted(firstAvailableIndex),
              probes |-> Len(probeSequence), probeSequence |-> probeSequence]
        ELSE LET probeIndex == ProbeIndex(initialIndex, step, i, m)
                 seq == Append(probeSequence, probeIndex)
                 currentNode == t.buckets[probeIndex + 1]
             IN  IF IsNull(currentNode)
                 THEN [found |-> FALSE,
                       index |-> FirstAvailable(firstAvailableIndex,
                                                probeIndex),
                       probes |-> Len(seq), probeSequence |-> seq]
                 ELSE IF IsDeleted(currentNode)
                 THEN FindSlotLoop(t, key, initialIndex, step, i + 1, seq,
                          FirstAvailable(firstAvailableIndex, probeIndex))
                 ELSE IF SameKey(currentNode, key)
                 THEN [found |-> TRUE, index |-> probeIndex,
                       probes |-> Len(seq), probeSequence |-> seq]
                 ELSE FindSlotLoop(t, key, initialIndex, step, i + 1, seq,
                                   firstAvailableIndex)

\* The step _findSlot probes with.
ProbeStep(t, key) ==
    IF t.collisionResolution = DoubleHashing
    THEN LET step == hash2(t, key)
         IN  IF step <= 0 \/ step >= t.tableSize THEN 1 ELSE step
    ELSE 1

\* _findSlot(key); its own call of hash() leaves the table as AfterHash.
_findSlot(t, key, rnd) ==
    LET hashInfo == hash(t, key, rnd)
    IN  FindSlotLoop(hashInfo.t, key, hashInfo.initialIndex,
                     ProbeStep(hashInfo.t, key), 0, <<>>, -1)

\* The table after a call of hash(key).
AfterHash(t, key, rnd) == hash(t, key, rnd).t

\* Mutant of ChainIndex: the loop looks at the first entry only.
ChainIndex_FirstOnly(bucket, key) ==
    IF Len(bucket) > 0 /\ bucket[1].key = key THEN 1 ELSE 0

\* The loop over a chaining bucket: the 1-based index of the first entry of
\* key, 0 when the loop ends without one.
ChainIndex(bucket, key) ==
    IF \E i \in 1 .. Len(bucket) : SameKey(bucket[i], key)
    THEN CHOOSE i \in 1 .. Len(bucket) :
            /\ SameKey(bucket[i], key)
            /\ \A j \in 1 .. (i - 1) : ~SameKey(bucket[j], key)
    ELSE 0

\* Mutant of Splice: bucket.splice(i), which removes the entries after i too.
Splice_Tail(bucket, i) == SubSeq(bucket, 1, i - 1)

\* bucket.splice(i, 1)
Splice(bucket, i) ==
    [j \in 1 .. (Len(bucket) - 1) |-> IF j < i THEN bucket[j] ELSE bucket[j + 1]]

\* getLoadFactor() >= 0.7, the test of set's warning (a comparison of
\* rationals: itemCount / tableSize >= 7 / 10).
LoadFactorWarning(t) ==
    t.tableSize > 0 /\ 10 * t.itemCount >= 7 * t.tableSize

\* Mutant of OnHighLoad: set doubles the table and empties it.
OnHighLoad_Grow(t) ==
    initializeBuckets([t EXCEPT !.size = 2 * t.size,
                                !.tableSize = findNextPrime(2 * t.size)])

\* What set does under open addressing when getLoadFactor() >= 0.7: it warns
\* that a resize is recommended and leaves the table alone.
OnHighLoad(t) == t

\* Mutant of Push: the new entry goes to the front of the bucket.
Push_Front(bucket, node) == <<node>> \o bucket

\* bucket.push(new HashTableNode(key, value))
Push(bucket, node) == Append(bucket, node)

\* Mutant of UpdatedNode: the assignment of the new value is missing.
UpdatedNode_Stale(node, value) == node

\* bucket[i].value = value: the entry of a chaining bucket after an update.
UpdatedNode(node, value) == [node EXCEPT !.value = value]

\* Mutant of ChainProbes: probes is kept 0, as for a probing hit at once.
ChainProbes_Zero(bucket) == 0

\* probes: bucket.length, the length of the chain when set returns.
ChainProbes(bucket) == Len(bucket)

\* set(key, value): the table after the call and the result; threw is TRUE
\* when the call ends with the overflow Error.
set(t, key, value, rnd) ==
    LET hashInfo == hash(t, key, rnd)
        t1 == hashInfo.t
        initialIndex == hashInfo.initialIndex
    IN  IF t1.collisionResolution = Chaining
        THEN LET bucket == t1.buckets[initialIndex + 1]
                 i == ChainIndex(bucket, key)
             IN  IF i # 0
                 THEN [t |-> [t1 EXCEPT !.buckets[initialIndex + 1][i] =
                                            UpdatedNode(bucket[i], value)],
                       threw |-> FALSE, isUpdate |-> TRUE,
                       initialIndex |-> initialIndex,
                       finalIndex |-> initialIndex,
                       probes |-> ChainProbes(bucket),
                       probeSequence |-> <<initialIndex>>]
                 ELSE [t |-> [t1 EXCEPT
                                !.buckets[initialIndex + 1] =
                                    Push(bucket, HashTableNode(key, value)),
                                !.itemCount = t1.itemCount + 1],
                       threw |-> FALSE, isUpdate |-> FALSE,
                       initialIndex |-> initialIndex,
                       finalIndex |-> initialIndex,
                       probes |-> ChainProbes(
                                      Push(bucket, HashTableNode(key, value))),
                       probeSequence |-> <<initialIndex>>]
        ELSE LET tw == IF LoadFactorWarning(t1) THEN OnHighLoad(t1) ELSE t1
                 result == _findSlot(tw, key, rnd)
                 t2 == AfterHash(tw, key, rnd)
             IN  IF result.found
                 THEN [t |-> [t2 EXCEPT !.buckets[result.index + 1] =
                                            HashTableNode(key, value)],
                       threw |-> FALSE, isUpdate |-> TRUE,
                       initialIndex |-> initialIndex,
                       finalIndex |-> result.index,
                       probes |-> result.probes,
                       probeSequence |-> result.probeSequence]
                 ELSE IF result.index # -1
                 THEN [t |-> [t2 EXCEPT
                                !.buckets[result.index + 1] =
                                    HashTableNode(key, value),
                                !.itemCount = t2.itemCount + 1],
                       threw |-> FALSE, isUpdate |-> FALSE,
                       initialIndex |-> initialIndex,
                       finalIndex |-> result.index,
                       probes |-> result.probes,
                       probeSequence |-> result.probeSequence]
                 ELSE [t |-> t2, threw |-> TRUE, isUpdate |-> FALSE,
                       initialIndex |-> initialIndex,
                       finalIndex |-> -1,
                       probes |-> result.probes,
                       probeSequence |-> result.probeSequence]

\* get(key): the table after the call and the result.
get(t, key, rnd) ==
    LET hashInfo == hash(t, key, rnd)
        t1 == hashInfo.t
        initialIndex == hashInfo.initialIndex
    IN  IF t1.collisionResolution = Chaining
        THEN LET bucket == t1.buckets[initialIndex + 1]
                 i == ChainIndex(bucket, key)
             IN  IF i # 0
                 THEN [t |-> t1, value |-> bucket[i].value,
                       initialIndex |-> initialIndex,
                       finalIndex |-> initialIndex,
                       probes |-> Len(bucket),
                       probeSequence |-> <<initialIndex>>]
                 ELSE [t |-> t1, value |-> NullValue,
                       initialIndex |-> initialIndex,
                       finalIndex |-> NullIndex,
                       probes |-> 0,
                       probeSequence |-> <<initialIndex>>]
        ELSE LET result == _findSlot(t1, key, rnd)
                 t2 == AfterHash(t1, key, rnd)
                 node == t2.buckets[result.index + 1]
             IN  IF result.found /\ ~IsNull(node) /\ ~IsDeleted(node)
                 THEN [t |-> t2, value |-> node.value,
                       initialIndex |-> initialIndex,
                       finalIndex |-> result.index,
                       probes |-> result.probes,
                       probeSequence |-> result.probeSequence]
                 ELSE [t |-> t2, value |-> NullValue,
                       initialIndex |-> initialIndex,
                       finalIndex |-> NullIndex,
                       probes |-> result.probes,
                       probeSequence |-> result.probeSequence]

\* Mutant of RemovedSlot: remove empties the slot.
RemovedSlot_Null == NullSlot

\* What remove leaves in the slot of the removed entry.
RemovedSlot == DELETED_MARKER

\* Mutant of RemoveLookup: remove probes with step 1 whatever the policy.
RemoveLookup_Linear(t, key, rnd) ==
    FindSlotLoop(AfterHash(t, key, rnd), key,
                 hash(t, key, rnd).initialIndex, 1, 0, <<>>, -1)

\* const result = this._findSlot(key) in remove.
RemoveLookup(t, key, rnd) == _findSlot(t, key, rnd)

\* remove(key): the table after the call and the result.
remove(t, key, rnd) ==
    LET hashInfo == hash(t, key, rnd)
        t1 == hashInfo.t
        initialIndex == hashInfo.initialIndex
    IN  IF t1.collisionResolution = Chaining
        THEN LET bucket == t1.buckets[initialIndex + 1]
                 i == ChainIndex(bucket, key)
             IN  IF i # 0
                 THEN [t |-> [t1 EXCEPT
                                !.buckets[initialIndex + 1] = Splice(bucket, i),
                                !.itemCount = t1.itemCount - 1],
                       success |-> TRUE,
                       initialIndex |-> initialIndex,
                       finalIndex |-> initialIndex,
                       probes |-> Len(bucket),
                       probeSequence |-> <<initialIndex>>]
                 ELSE [t |-> t1, success |-> FALSE,
                       initialIndex |-> initialIndex,
                       finalIndex |-> NullIndex,
                       probes |-> Len(bucket),
                       probeSequence |-> <<initialIndex>>]
        ELSE LET result == RemoveLookup(t1, key, rnd)
                 t2 == AfterHash(t1, key, rnd)
             IN  IF result.found
                 THEN [t |-> [t2 EXCEPT
                                !.buckets[result.index + 1] = RemovedSlot,
                                !.itemCount = t2.itemCount - 1],
                       success |-> TRUE,
                       initialIndex |-> initialIndex,
                       finalIndex |-> result.index,
                       probes |-> result.probes,
                       probeSequence |-> result.probeSequence]
                 ELSE [t |-> t2, success |-> FALSE,
                       initialIndex |-> initialIndex,
                       finalIndex |-> NullIndex,
                       probes |-> result.probes,
                       probeSequence |-> result.probeSequence]

-----------------------------------------------------------------------------
(* Resize, strategy change, construction.                                  *)

\* Mutant of Flatten: the entries of the first bucket only.
Flatten_First(bs, i) == IF i > Len(bs) THEN <<>> ELSE bs[i]

RECURSIVE Flatten(_, _)
\* The entries of chaining buckets i .. Len(bs), bucket by bucket, in order.
Flatten(bs, i) ==
    IF i > Len(bs) THEN <<>> ELSE bs[i] \o Flatten(bs, i + 1)

\* The live entries resize collects (oldItems), in the order of the storage.
oldItems(t) ==
    IF t.collisionResolution = Chaining
    THEN Flatten(t.buckets, 1)
    ELSE SelectSeq(t.buckets,
                   LAMBDA node : ~IsNull(node) /\ ~IsDeleted(node))

\* The one element of a set of one element: Only({e : x \in {d}}) is
\* LET x == d IN e, with d computed once.
Only(S) == CHOOSE x \in S : TRUE

\* Mutant of GoesOn: no catch, the Error of a re-insertion ends the forEach.
GoesOn_Abort(threw) == ~threw

\* Whether the forEach of resize goes on after a re-insertion: the set is
\* inside a try whose catch only logs, so it does whether or not set threw.
GoesOn(threw) == TRUE

RECURSIVE Rehash(_, _, _, _, _, _)
\* The forEach of resize from entry i on: every collected entry goes through
\* set; an overflow Error is caught and the loop goes on with the next entry.
\* attempted counts the calls of set, skipped the Errors caught.
Rehash(t, items, i, rnd, attempted, skipped) ==
    IF i > Len(items)
    THEN [t |-> t, attempted |-> attempted, skipped |-> skipped]
    ELSE Only({ IF GoesOn(r.threw)
                THEN Rehash(r.t, items, i + 1, rnd, attempted + 1,
                            IF r.threw THEN skipped + 1 ELSE skipped)
                ELSE [t |-> r.t, attempted |-> attempted + 1,
                      skipped |-> skipped] :
                r \in {set(t, items[i].key, items[i].value, rnd)} })

\* Mutant of resizeParams: the universal parameters are generated anew too.
resizeParams_Universal(t) ==
    LET t2 == IF t.collisionResolution = DoubleHashing
              THEN setDoubleHashingR(t) ELSE t
    IN  IF t.hashingStrategy = Universal
        THEN generateUniversalParams(t2, << <<0, 1>>, <<0, 1>> >>) ELSE t2

\* The parameters resize computes anew for the new tableSize: R under double
\* hashing, nothing else.
resizeParams(t) ==
    IF t.collisionResolution = DoubleHashing THEN setDoubleHashingR(t) ELSE t

\* resize flooring the requested size at 0 instead of 1.
resizeEmptied_FloorZero(t, newRequestedSizeInput) ==
    LET newRequestedSize == Max(0, newRequestedSizeInput)
        t1 == [t EXCEPT
                 !.size = newRequestedSize,
                 !.tableSize = IF needsPrimeSize(t.collisionResolution)
                               THEN findNextPrime(newRequestedSize)
                               ELSE newRequestedSize]
    IN  initializeBuckets(resizeParams(t1))

\* resize(newRequestedSizeInput) up to initializeBuckets: the emptied table
\* of the new size.
resizeEmptied(t, newRequestedSizeInput) ==
    LET newRequestedSize == Max(1, newRequestedSizeInput)
        t1 == [t EXCEPT
                 !.size = newRequestedSize,
                 !.tableSize = IF needsPrimeSize(t.collisionResolution)
                               THEN findNextPrime(newRequestedSize)
                               ELSE newRequestedSize]
    IN  initializeBuckets(resizeParams(t1))

\* The re-insertions of resize(newRequestedSizeInput): the table after them
\* and their counts.
resizeRehash(t, newRequestedSizeInput, rnd) ==
    Only({ IF Len(items) > 0 /\ t3.tableSize = 0
           THEN [t |-> t3, attempted |-> 0, skipped |-> 0]
           ELSE Rehash(t3, items, 1, rnd, 0, 0) :
           items \in {oldItems(t)},
           t3 \in {resizeEmptied(t, newRequestedSizeInput)} })

\* resize(newRequestedSizeInput)
resize(t, newRequestedSizeInput, rnd) ==
    resizeRehash(t, newRequestedSizeInput, rnd).t

\* clear()
clear(t) == initializeBuckets(t)

\* setStrategies regenerating (p, a, b) only when the hashing strategy
\* changes.
setStrategies_KeepParams(t, hashing, collision, rnd) ==
    LET oldCollision == t.collisionResolution
        oldHashing == t.hashingStrategy
        t1 == [t EXCEPT
                 !.hashingStrategy = hashing,
                 !.collisionResolution = collision,
                 !.tableSize = IF needsPrimeSize(collision)
                               THEN findNextPrime(t.size)
                               ELSE t.size]
        t2 == IF hashing = Universal /\ oldHashing # hashing
              THEN generateUniversalParams(t1, rnd) ELSE t1
        t3 == IF /\ collision = DoubleHashing
                 /\ \/ oldCollision # collision
                    \/ needsPrimeSize(collision) # needsPrimeSize(oldCollision)
              THEN setDoubleHashingR(t2) ELSE t2
    IN  initializeBuckets(t3)

\* setStrategies regenerating (p, a, b) and R on every call.
setStrategies_Regenerate(t, hashing, collision, rnd) ==
    LET t1 == [t EXCEPT
                 !.hashingStrategy = hashing,
                 !.collisionResolution = collision,
                 !.tableSize = IF needsPrimeSize(collision)
                               THEN findNextPrime(t.size)
                               ELSE t.size]
        t2 == IF hashing = Universal
              THEN generateUniversalParams(t1, rnd) ELSE t1
        t3 == IF collision = DoubleHashing
              THEN setDoubleHashingR(t2) ELSE t2
    IN  initializeBuckets(t3)

\* setStrategies(hashing, collision)
setStrategies(t, hashing, collision, rnd) ==
    LET oldCollision == t.collisionResolution
        oldHashing == t.hashingStrategy
        t1 == [t EXCEPT
                 !.hashingStrategy = hashing,
                 !.collisionResolution = collision,
                 !.tableSize = IF needsPrimeSize(collision)
                               THEN findNextPrime(t.size)
                               ELSE t.size]
        t2 == IF /\ hashing = Universal
                 /\ \/ oldHashing # hashing
                    \/ needsPrimeSize(collision) # needsPrimeSize(oldCollision)
              THEN generateUniversalParams(t1, rnd) ELSE t1
        t3 == IF /\ collision = DoubleHashing
                 /\ \/ oldCollision # collision
                    \/ needsPrimeSize(collision) # needsPrimeSize(oldCollision)
              THEN setDoubleHashingR(t2) ELSE t2
    IN  initializeBuckets(t3)

\* new HashTable(requestedSize, hashing, collision)
constructor(requestedSize, hashing, collision, rnd) ==
    LET sz == Max(1, requestedSize)
        t0 == [buckets |-> <<>>, size |-> sz,
               tableSize |-> IF needsPrimeSize(collision)
                             THEN findNextPrime(sz) ELSE sz,
               hashingStrategy |-> hashing,
               collisionResolution |-> collision,
               itemCount |-> 0,
               universal_p |-> DefaultUniversalP,
               universal_a |-> 1, universal_b |-> 0,
               double_hashing_R |-> 1]
        t1 == IF hashing = Universal
              THEN generateUniversalParams(t0, rnd) ELSE t0
        t2 == IF collision = DoubleHashing THEN setDoubleHashingR(t1) ELSE t1
    IN  initializeBuckets(t2)

\* Mutant of getLoadFactor: the quotient by the requested size.
getLoadFactor_BySize(t) ==
    IF t.size > 0 THEN <<t.itemCount, t.size>> ELSE <<0, 1>>

\* getLoadFactor() as the pair <<numerator, denominator>> of the quotient.
getLoadFactor(t) ==
    IF t.tableSize > 0 THEN <<t.itemCount, t.tableSize>> ELSE <<0, 1>>

-----------------------------------------------------------------------------
(* The state machine.                                                      *)

\* The pairs of Math.random() samples one generateUniversalParams() draws:
\* the first for universal_a, the second for universal_b.
RandomPairs == { <<r, r>> : r \in RandomSamples }

\* No draw: the call does not reach generateUniversalParams().
NoDraw == << <<0, 1>>, <<0, 1>> >>

\* The draws of a call whose hash() regenerates invalid parameters.
HashDraws(t) == IF ParamsInvalid(t) THEN RandomPairs ELSE {NoDraw}

\* The record of a call: its name, whether it ended with an Error, and, for
\* a call that replaces the storage, the number of live entries and the
\* strategies the table had when the call was made.
Call(op, threw, liveBefore, oldHashing, oldCollision) ==
    [op |-> op, threw |-> threw, liveBefore |-> liveBefore,
     oldHashing |-> oldHashing, oldCollision |-> oldCollision]

Install(t) ==
    /\ buckets' = t.buckets
    /\ size' = t.size
    /\ tableSize' = t.tableSize
    /\ hashingStrategy' = t.hashingStrategy
    /\ collisionResolution' = t.collisionResolution
    /\ itemCount' = t.itemCount
    /\ universal_p' = t.universal_p
    /\ universal_a' = t.universal_a
    /\ universal_b' = t.universal_b
    /\ double_hashing_R' = t.double_hashing_R
    /\ UNCHANGED otherVars

\* The table a constructor call with arguments from the given sets leaves,
\* with call as the record of the call.
ConstructedAs(sizes, hashings, collisions, call) ==
    \E requestedSize \in sizes, hashing \in hashings,
       collision \in collisions, rnd \in RandomPairs :
        LET t == constructor(requestedSize, hashing, collision,
                             IF hashing = Universal THEN rnd ELSE NoDraw)
        IN  /\ buckets = t.buckets
            /\ size = t.size
            /\ tableSize = t.tableSize
            /\ hashingStrategy = t.hashingStrategy
            /\ collisionResolution = t.collisionResolution
            /\ itemCount = t.itemCount
            /\ universal_p = t.universal_p
            /\ universal_a = t.universal_a
            /\ universal_b = t.universal_b
            /\ double_hashing_R = t.double_hashing_R
            /\ last = call
            /\ skipList = SkipList(DefaultMaxLevel)
            /\ bst = BST
            /\ bfs = NoSearch
            /\ linkedList = LinkedListLogic

\* The table a constructor call with arguments from the given sets leaves.
Constructed(sizes, hashings, collisions) ==
    ConstructedAs(sizes, hashings, collisions,
                  Call("constructor", FALSE, 0, "", ""))

Init == Constructed(RequestedSizes, HashingStrategy, CollisionResolution)

Set(key, value) ==
    \E rnd \in HashDraws(This) :
        \E r \in {set(This, key, value, rnd)} :
            /\ Install(r.t)
            /\ last' = Call("set", r.threw, 0, "", "")

Get(key) ==
    \E rnd \in HashDraws(This) :
        \E r \in {get(This, key, rnd)} :
            /\ Install(r.t)
            /\ last' = Call("get", FALSE, 0, "", "")

Remove(key) ==
    \E rnd \in HashDraws(This) :
        \E r \in {remove(This, key, rnd)} :
            /\ Install(r.t)
            /\ last' = Call("remove", FALSE, 0, "", "")

Resize(n) ==
    \E rnd \in HashDraws(This) :
        \E t \in {resize(This, n, rnd)} :
            /\ Install(t)
            /\ last' = Call("resize", FALSE, Len(oldItems(This)), "", "")

Clear ==
    \E t \in {clear(This)} :
        /\ Install(t)
        /\ last' = Call("clear", FALSE, Len(oldItems(This)), "", "")

SetStrategies(hashing, collision) ==
    \E rnd \in (IF hashing = Universal THEN RandomPairs ELSE {NoDraw}) :
        \E t \in {setStrategies(This, hashing, collision, rnd)} :
            /\ Install(t)
            /\ last' = Call("setStrategies", FALSE, Len(oldItems(This)),
                            hashingStrategy, collisionResolution)

Next ==
    \/ \E key \in Keys, value \in Values : Set(key, value)
    \/ \E key \in Keys : Get(key)
    \/ \E key \in Keys : Remove(key)
    \/ \E n \in RequestedSizes : Resize(n)
    \/ Clear
    \/ \E hashing \in HashingStrategy, collision \in CollisionResolution :
            SetStrategies(hashing, collision)

Spec == Init /\ [][Next]_vars

\* The overflow scenario: open-addressing tables of 2 and of 3 slots, used
\* with one key more than the larger of them holds ("a", "b", "ab", "ba").
OverflowKeys == Keys \cup { <<98, 97>> }

InitOverflow ==
    Constructed({MaxRequestedSize - 1, MaxRequestedSize}, HashingStrategy,
                {LinearProbing, DoubleHashing})

NextOverflow ==
    \/ \E key \in OverflowKeys, value \in Values : Set(key, value)
    \/ \E key \in OverflowKeys : Get(key)
    \/ \E key \in OverflowKeys : Remove(key)

SpecOverflow == InitOverflow /\ [][NextOverflow]_vars

-----------------------------------------------------------------------------
(* Observations of a table the properties below are stated with.  They     *)
(* read the storage directly, not through hash() or _findSlot().           *)

\* The places of the live entries: <<i, j>> for entry j of chaining bucket i,
\* <<i, 0>> for the Occupied slot i of a probing table.
LivePositions(t) ==
    IF t.collisionResolution = Chaining
    THEN UNION { { <<i, j>> : j \in 1 .. Len(t.buckets[i]) } :
                    i \in 1 .. Len(t.buckets) }
    ELSE { <<i, 0>> : i \in { j \in 1 .. Len(t.buckets) :
                                 t.buckets[j].tag = "node" } }

EntryAt(t, pos) ==
    IF pos[2] = 0 THEN t.buckets[pos[1]] ELSE t.buckets[pos[1]][pos[2]]

\* The keys with a live entry.
LiveKeys(t) == { EntryAt(t, pos).key : pos \in LivePositions(t) }

\* The slots of a probing table holding DELETED_MARKER (0-based).
Tombstones(t) ==
    IF t.collisionResolution = Chaining THEN {}
    ELSE { i - 1 : i \in { j \in 1 .. Len(t.buckets) :
                              t.buckets[j] = DELETED_MARKER } }

\* The indices of a probe sequence.
Range(seq) == { seq[i] : i \in 1 .. Len(seq) }

\* What get(key) returns as value in table t.
Lookup(t, key) == get(t, key, NoDraw).value

-----------------------------------------------------------------------------
(* Properties.                                                             *)

\* C1 (round trip): in every reachable state, for every key and value, when
\* set(key, value) returns without the overflow Error, the get(key) made
\* right after it returns value.
C1_RoundTrip ==
    \A key \in Keys, value \in Values :
        \A rnd \in HashDraws(This) :
            LET r == set(This, key, value, rnd)
            IN  ~r.threw =>
                    \A rnd2 \in HashDraws(r.t) :
                        get(r.t, key, rnd2).value = value

\* C1 witness: a set has just returned on a double-hashing table with
\* universal hashing, and a key it holds is found by get after more than
\* one probe.
C1_Witness ==
    /\ last.op = "set" /\ ~last.threw
    /\ collisionResolution = DoubleHashing
    /\ hashingStrategy = Universal
    /\ \E key \in Keys :
        /\ Lookup(This, key) \in Values
        /\ get(This, key, NoDraw).probes > 1

\* C2 (tombstones keep the chain): under open addressing, in every reachable
\* state and for every two distinct live keys a and b, get(b) returns after
\* remove(a) the value it returned before.
C2_RemoveKeepsOthers ==
    needsPrimeSize(collisionResolution) =>
        \A a \in LiveKeys(This), b \in LiveKeys(This) :
            a # b =>
                /\ Lookup(This, b) \in Values
                /\ Lookup(remove(This, a, NoDraw).t, b) = Lookup(This, b)

\* C2 witness: a remove has just returned, and a live key is still found by
\* get although its probe sequence passes through a DELETED_MARKER slot.
C2_Witness ==
    /\ last.op = "remove"
    /\ needsPrimeSize(collisionResolution)
    /\ \E b \in LiveKeys(This) :
        /\ Lookup(This, b) \in Values
        /\ Range(get(This, b, NoDraw).probeSequence) \cap Tombstones(This) # {}

\* C3 (unique keys): in every reachable state no key has two live entries.
C3_UniqueKeys ==
    \A p \in LivePositions(This), q \in LivePositions(This) :
        p # q => EntryAt(This, p).key # EntryAt(This, q).key

\* C3 witness: a set has just returned, the table holds one live entry, and
\* its key's probe sequence crosses a DELETED_MARKER slot before reaching
\* it: that set found the entry past the deleted slot and updated it (an
\* insertion would have taken the deleted slot).
C3_Witness ==
    /\ last.op = "set" /\ ~last.threw
    /\ needsPrimeSize(collisionResolution)
    /\ itemCount = 1
    /\ \E key \in LiveKeys(This) :
        /\ Cardinality(LivePositions(This)) = 1
        /\ Range(get(This, key, NoDraw).probeSequence) \cap Tombstones(This) # {}


\* C4 (overflow leaves the table as it was): under open addressing a set
\* that ends with the overflow Error leaves every field of the table as
\* before the call; and on a table of 3 slots a set succeeds while fewer
\* than 3 entries are live, the set of a new key on 3 live entries ends with
\* the overflow Error, and get still returns the 3 entries' values.
C4_OverflowKeepsState ==
    needsPrimeSize(collisionResolution) =>
        \A key \in OverflowKeys, value \in Values :
            LET r == set(This, key, value, NoDraw)
            IN  /\ r.threw => r.t = This
                /\ (tableSize = 3 /\ itemCount < 3) => ~r.threw
                /\ (tableSize = 3 /\ itemCount = 3 /\ key \notin LiveKeys(This))
                    => /\ r.threw
                       /\ r.finalIndex = -1
                       /\ Cardinality(LiveKeys(r.t)) = 3
                       /\ \A k \in LiveKeys(This) :
                            /\ Lookup(r.t, k) \in Values
                            /\ Lookup(r.t, k) = Lookup(This, k)

\* C4 witness: on a table of 3 slots holding 3 live entries a set has just
\* ended with the overflow Error.
C4_Witness ==
    /\ last.op = "set" /\ last.threw
    /\ tableSize = 3 /\ itemCount = 3
    /\ Cardinality(LiveKeys(This)) = 3

\* C5 (itemCount counts the live entries): in every reachable state
\* itemCount is the number of live entries of the storage.
C5_ItemCount == itemCount = Cardinality(LivePositions(This))

\* C5 witness: a resize has just dropped entries (the new probing table has
\* fewer slots than there were live entries) and left a full table.
C5_Witness ==
    /\ last.op = "resize"
    /\ needsPrimeSize(collisionResolution)
    /\ itemCount < last.liveBefore
    /\ itemCount = tableSize

C7_Sizes == 0 .. (2 * Cardinality(Keys) + 1)

\* C7 (resize preserves data): in every reachable state, resize(n) with
\* n >= 2 * itemCount leaves itemCount unchanged and get returns for every
\* previously live key the value it returned before.
C7_ResizePreserves ==
    \A n \in C7_Sizes :
        n >= 2 * itemCount =>
            LET t2 == resize(This, n, NoDraw)
            IN  /\ t2.itemCount = itemCount
                /\ \A key \in LiveKeys(This) :
                        /\ Lookup(This, key) \in Values
                        /\ Lookup(t2, key) = Lookup(This, key)

\* C7 witness: a resize to at least twice the number of live entries has
\* just returned on a table that held an entry and holds it still.
C7_Witness ==
    /\ last.op = "resize"
    /\ last.liveBefore >= 1
    /\ size >= 2 * last.liveBefore
    /\ itemCount = last.liveBefore

\* C8 (a strategy switch clears the table): in every reachable state, after
\* setStrategies(h, c) with h or c different from the active strategies,
\* itemCount is 0, the load factor is 0, every bucket is empty and every
\* slot is null (no DELETED_MARKER), and get finds none of the keys that
\* were live.
C8_SwitchClears ==
    \A hashing \in HashingStrategy, collision \in CollisionResolution :
        (hashing # hashingStrategy \/ collision # collisionResolution) =>
            \A rnd \in RandomPairs :
                \A t2 \in {setStrategies(This, hashing, collision, rnd)} :
                    /\ t2.itemCount = 0
                    /\ getLoadFactor(t2)[1] = 0
                    /\ Len(t2.buckets) = t2.tableSize
                    /\ \A i \in 1 .. Len(t2.buckets) :
                            t2.buckets[i] = IF collision = Chaining
                                            THEN <<>> ELSE NullSlot
                    /\ \A key \in LiveKeys(This) :
                            Lookup(t2, key) = NullValue

\* C8 witness: a setStrategies call that changed a strategy has just
\* returned on a table that held live entries.
C8_Witness ==
    /\ last.op = "setStrategies"
    /\ last.liveBefore >= 2
    /\ (last.oldHashing # hashingStrategy
            \/ last.oldCollision # collisionResolution)
    /\ itemCount = 0

\* C9 (get is read-only): in every reachable state and for every key, live
\* or not, get leaves every field of the table as it was, and the collision
\* policy is one get handles (its switch never reaches the default that
\* throws).
C9_GetReadOnly ==
    /\ collisionResolution \in CollisionResolution
    /\ \A key \in Keys :
        \A rnd \in HashDraws(This) :
            get(This, key, rnd).t = This

\* C9 witness: a get has just returned on a table with universal hashing
\* that holds a live key and lacks another.
C9_Witness ==
    /\ last.op = "get"
    /\ hashingStrategy = Universal
    /\ LiveKeys(This) # {}
    /\ Keys \ LiveKeys(This) # {}

\* C10 (remove of an absent key): in every reachable state, remove(k) for a
\* key with no live entry returns success = false and finalIndex = null and
\* leaves every field of the table as it was.
C10_RemoveAbsent ==
    /\ collisionResolution \in CollisionResolution
    /\ \A key \in Keys \ LiveKeys(This) :
        \A rnd \in HashDraws(This) :
            LET r == remove(This, key, rnd)
            IN  /\ ~r.success
                /\ r.finalIndex = NullIndex
                /\ r.t = This

\* C10 witness: a remove has just returned; a key has no live entry and its
\* probe sequence passes a DELETED_MARKER slot and an entry of another key.
C10_Witness ==
    /\ last.op = "remove"
    /\ needsPrimeSize(collisionResolution)
    /\ \E key \in Keys \ LiveKeys(This) :
        LET seq == Range(remove(This, key, NoDraw).probeSequence)
        IN  /\ seq \cap Tombstones(This) # {}
            /\ \E i \in seq : buckets[i + 1].tag = "node"


-----------------------------------------------------------------------------
(* The parameter machine: the same operations on few entries and on more   *)
(* table sizes, for the properties of the hashing parameters.              *)

\* The sizes a caller passes in the parameter machine.
ParamSizes == 0 .. (2 * MaxRequestedSize + 1)

\* The keys stored in the parameter machine: "a", "b".
ParamKeys == { <<97>>, <<98>> }

\* The keys hash(), hash2() and the probe sequence are evaluated for:
\* "a", "b", "ab", "ba", "zzz", "Key1".
HashKeys == { <<97>>, <<98>>, <<97, 98>>, <<98, 97>>, <<122, 122, 122>>,
              <<75, 101, 121, 49>> }

\* A call of the public method hash(key).
Hash(key) ==
    \E rnd \in HashDraws(This) :
        \E r \in {hash(This, key, rnd)} :
            /\ Install(r.t)
            /\ last' = Call("hash", FALSE, 0, "", "")

InitParams == Constructed(ParamSizes, HashingStrategy, CollisionResolution)

NextParams ==
    \/ \E key \in ParamKeys : Set(key, "x")
    \/ \E key \in ParamKeys : Get(key)
    \/ \E key \in ParamKeys : Remove(key)
    \/ \E key \in ParamKeys : Hash(key)
    \/ \E n \in ParamSizes : Resize(n)
    \/ Clear
    \/ \E hashing \in HashingStrategy, collision \in CollisionResolution :
            SetStrategies(hashing, collision)

SpecParams == InitParams /\ [][NextParams]_vars


-----------------------------------------------------------------------------
(* The probe sequence and the hashing parameters.                          *)

\* The initial index hash(key) returns for the table t.
InitialIndex(t, key) == hash(t, key, NoDraw).initialIndex

\* The indices _findSlot computes for key when no probe ends the loop.
ProbeCycle(t, key) ==
    [i \in 0 .. (t.tableSize - 1) |->
        ProbeIndex(InitialIndex(t, key), ProbeStep(t, key), i, t.tableSize)]

\* C11 (full cycle): under linear probing and double hashing, in every
\* reachable state and for every key, the tableSize probe indices
\* (initialIndex + i * step) mod tableSize, i = 0 .. tableSize - 1, are
\* pairwise distinct: the probe sequence visits every slot exactly once.
C11_FullCycle ==
    needsPrimeSize(collisionResolution) =>
        \A key \in HashKeys :
            \A c \in {ProbeCycle(This, key)} :
                /\ \A i, j \in DOMAIN c : i # j => c[i] # c[j]
                /\ {c[i] : i \in DOMAIN c} = 0 .. (tableSize - 1)

\* A double-hashing table of 7 slots with entries, where some key probes
\* with a step of 3 or more.
C11_Witness ==
    /\ collisionResolution = DoubleHashing
    /\ tableSize = 7
    /\ itemCount > 0
    /\ \E key \in HashKeys : ProbeStep(This, key) >= 3


\* C12 (index range): for every key, under both hashing strategies and every
\* reachable setting of the parameters, hash(key).initialIndex is an integer
\* in [0, tableSize).
C12_IndexInRange ==
    \A key \in HashKeys \cup { <<>> } :
        InitialIndex(This, key) \in 0 .. (tableSize - 1)

\* After a call of hash() on a universal table of 5 slots or more with drawn
\* parameters a > 1: one key hashes to slot 0, another to the last slot.
C12_Witness ==
    /\ last.op = "hash"
    /\ hashingStrategy = Universal
    /\ universal_a > 1
    /\ tableSize >= 5
    /\ \E key \in HashKeys : InitialIndex(This, key) = 0
    /\ \E key \in HashKeys : InitialIndex(This, key) = tableSize - 1


\* Whether n is a prime, by trial division.
Prime(n) == n > 1 /\ \A d \in 2 .. (n - 1) : n % d # 0

\* Whether p is the smallest prime >= n.
SmallestPrimeFrom(n, p) ==
    p >= n /\ Prime(p) /\ \A q \in n .. (p - 1) : ~Prime(q)

\* Whether the slots of the table t are as its size and policy demand.
SlotsAsDemanded(t) ==
    /\ Len(t.buckets) = t.tableSize
    /\ t.size >= 1
    /\ IF needsPrimeSize(t.collisionResolution)
       THEN SmallestPrimeFrom(t.size, t.tableSize)
       ELSE t.tableSize = t.size

\* C13 (table size): in every reachable state the storage array has exactly
\* tableSize slots, and tableSize is the smallest prime >= size under linear
\* probing and double hashing and equals size under chaining, where size is
\* max(1, the size last requested): the constructor, resize and
\* setStrategies all keep it so.
C13_TableSize ==
    /\ SlotsAsDemanded(This)
    /\ size \in { Max(1, n) : n \in ParamSizes }
    /\ \A n \in ParamSizes :
           \A t2 \in {resize(This, n, NoDraw)} :
               t2.size = Max(1, n) /\ SlotsAsDemanded(t2)
    /\ \A hashing \in HashingStrategy, collision \in CollisionResolution :
           \A t2 \in {setStrategies(This, hashing, collision, NoDraw)} :
               t2.size = size /\ SlotsAsDemanded(t2)

\* A table asked for 6 slots that switched from chaining (6 slots) to a
\* probing policy and has 7.
C13_Witness ==
    /\ last.op = "setStrategies"
    /\ last.oldCollision = Chaining
    /\ needsPrimeSize(collisionResolution)
    /\ size = 6
    /\ tableSize = 7
    /\ Len(buckets) = 7


\* C14 (double-hashing step): whenever double hashing is the active policy,
\* 0 < double_hashing_R < tableSize, and hash2(key) returns a step with
\* 1 <= step <= double_hashing_R for every key.
C14_StepInRange ==
    collisionResolution = DoubleHashing =>
        /\ 0 < double_hashing_R
        /\ double_hashing_R < tableSize
        /\ \A key \in HashKeys \cup { <<>> } :
               hash2(This, key) \in 1 .. double_hashing_R

\* A double-hashing table of 7 slots reached by setStrategies or resize, with
\* R = 5, where one key gets the step 1 and another the step R.
C14_Witness ==
    /\ collisionResolution = DoubleHashing
    /\ last.op \in {"setStrategies", "resize"}
    /\ tableSize = 7
    /\ double_hashing_R = 5
    /\ \E key \in HashKeys : hash2(This, key) = 1
    /\ \E key \in HashKeys : hash2(This, key) = 5


\* Whether a result of set, get or remove on the table t reports a probe
\* count and a probe sequence within the table.
ProbesWithin(t, r) ==
    /\ 1 <= r.probes
    /\ r.probes <= t.tableSize
    /\ r.probes = Len(r.probeSequence)
    /\ \A k \in 1 .. Len(r.probeSequence) :
           r.probeSequence[k] \in 0 .. (t.tableSize - 1)

\* C15 (bounded probing): under linear probing and double hashing every set,
\* get and remove ends after at most tableSize probes: the probes it reports
\* satisfy 1 <= probes <= tableSize and equal the length of probeSequence,
\* and every index of probeSequence is in [0, tableSize).
C15_BoundedProbes ==
    needsPrimeSize(collisionResolution) =>
        \A key \in OverflowKeys :
            /\ \A r \in {get(This, key, NoDraw)} : ProbesWithin(This, r)
            /\ \A r \in {remove(This, key, NoDraw)} : ProbesWithin(This, r)
            /\ \A value \in Values :
                   \A r \in {set(This, key, value, NoDraw)} :
                       ProbesWithin(This, r)

\* A full table of 3 slots without the key "ba": get("ba") looks at all
\* 3 slots, and so does the set("ba") that overflows.
C15_Witness ==
    /\ needsPrimeSize(collisionResolution)
    /\ tableSize = 3
    /\ itemCount = 3
    /\ last.op = "set"
    /\ get(This, <<98, 97>>, NoDraw).probes = 3
    /\ get(This, <<98, 97>>, NoDraw).value = NullValue
    /\ set(This, <<98, 97>>, "x", NoDraw).threw
    /\ \E key \in Keys : get(This, key, NoDraw).probes = 2


-----------------------------------------------------------------------------
(* The shrinking machine: open-addressing tables of up to                  *)
(* 2 * MaxRequestedSize - 1 requested slots that are filled and resized.   *)

\* The sizes a caller passes in the shrinking machine.
ShrinkSizes == { 0, MaxRequestedSize, 2 * MaxRequestedSize - 1 }

InitShrink ==
    Constructed({2 * MaxRequestedSize - 1}, HashingStrategy,
                {LinearProbing, DoubleHashing})

NextShrink ==
    \/ \E key \in OverflowKeys, value \in Values : Set(key, value)
    \/ \E key \in OverflowKeys : Remove(key)
    \/ \E n \in ShrinkSizes : Resize(n)

SpecShrink == InitShrink /\ [][NextShrink]_vars

\* C16 (shrinking resize): resize raises no Error; when the new
\* open-addressing table has fewer slots than there are live entries, every
\* entry is still put through set, each overflowing re-insertion is skipped
\* on its own, and the resulting itemCount is strictly smaller than the
\* itemCount before the resize (the new table is full of entries that were
\* there before, with their values).
C16_ShrinkSkips ==
    needsPrimeSize(collisionResolution) =>
        \A n \in ShrinkSizes :
            \A r \in {resizeRehash(This, n, NoDraw)} :
                /\ r.attempted = itemCount
                /\ r.t.itemCount = itemCount - r.skipped
                /\ r.t.tableSize < itemCount =>
                       /\ r.skipped = itemCount - r.t.tableSize
                       /\ r.t.itemCount < itemCount
                       /\ r.t.itemCount = r.t.tableSize
                /\ r.t.tableSize >= itemCount => r.skipped = 0
                /\ \A key \in LiveKeys(r.t) :
                       /\ key \in LiveKeys(This)
                       /\ Lookup(r.t, key) = Lookup(This, key)

\* After a resize of an open-addressing table with 4 entries to 2 slots:
\* 2 entries are left.
C16_Witness ==
    /\ last.op = "resize"
    /\ last.liveBefore = 4
    /\ needsPrimeSize(collisionResolution)
    /\ tableSize = 2
    /\ itemCount = 2
    /\ Cardinality(LiveKeys(This)) = 2


\* Whether the tables t and t2 give every key the same initial index.
SameIndices(t, t2) ==
    \A key \in HashKeys : InitialIndex(t2, key) = InitialIndex(t, key)

\* C17 (hash is a function of the key): with no resize or setStrategies in
\* between, two calls of hash with the same key return the same initialIndex,
\* and no call of set, get, remove or hash changes what hash returns for any
\* key: hash leaves the table as it is, and the table after set, get or
\* remove gives every key the index it had.
C17_HashStable ==
    /\ \A key \in HashKeys, rnd \in RandomPairs :
           \A h \in {hash(This, key, rnd)} :
               /\ h.t = This
               /\ \A rnd2 \in RandomPairs :
                      hash(h.t, key, rnd2).initialIndex = h.initialIndex
    /\ \A key \in ParamKeys, rnd \in RandomPairs :
           \A t2 \in { set(This, key, "x", rnd).t, get(This, key, rnd).t,
                        remove(This, key, rnd).t } :
               SameIndices(This, t2)

\* After a call of hash() on a universal double-hashing table that holds two
\* entries, with drawn parameters a > 1.
C17_Witness ==
    /\ last.op = "hash"
    /\ hashingStrategy = Universal
    /\ collisionResolution = DoubleHashing
    /\ universal_a > 1
    /\ itemCount = 2


RECURSIVE WeightedSum(_, _)
\* The sum of charCode_j * j over the first i characters of key.
WeightedSum(key, i) ==
    IF i = 0 THEN 0 ELSE WeightedSum(key, i - 1) + key[i] * i

\* C18 (steps of the Simple strategy): under the Simple strategy the steps
\* hash returns hold one entry per character of the key, in order, with the
\* 1-based position, the character and its code, and as subtotal the running
\* sum of code * position; initialIndex is the last subtotal modulo
\* tableSize. For "ab" the subtotals are 97 and 293.
C18_SimpleSteps ==
    hashingStrategy = Simple =>
        /\ \A key \in HashKeys :
               \A h \in {hash(This, key, NoDraw)} :
                   /\ Len(h.steps) = Len(key)
                   /\ \A i \in 1 .. Len(key) :
                          /\ h.steps[i].position = i
                          /\ h.steps[i].char = key[i]
                          /\ h.steps[i].code = key[i]
                          /\ h.steps[i].subtotal = WeightedSum(key, i)
                   /\ h.initialIndex =
                          h.steps[Len(key)].subtotal % tableSize
        /\ [i \in 1 .. 2 |-> hash(This, <<97, 98>>, NoDraw).steps[i].subtotal]
               = <<97, 293>>

\* After a call of hash() on a Simple table of 7 slots: "ab" has the
\* subtotals 97 and 293 and the index 293 mod 7 = 6.
C18_Witness ==
    /\ last.op = "hash"
    /\ hashingStrategy = Simple
    /\ tableSize = 7
    /\ hash(This, <<97, 98>>, NoDraw).steps[2].subtotal = 293
    /\ hash(This, <<97, 98>>, NoDraw).initialIndex = 6


-----------------------------------------------------------------------------
(* The loading machine: tables of 6 or 7 requested slots that are filled   *)
(* with up to 5 entries.                                                   *)

\* The requested sizes of the loading machine: 6 gives 6 buckets under
\* chaining and 7 slots under probing.
LoadSizes == { 2 * MaxRequestedSize, 7 }

\* The keys of the loading machine: "a", "b", "c", "ab", "ba".
LoadKeys == OverflowKeys \cup { <<99>> }

InitLoad == Constructed(LoadSizes, HashingStrategy, CollisionResolution)

NextLoad ==
    \/ \E key \in LoadKeys : Set(key, "x")
    \/ \E key \in LoadKeys : Get(key)
    \/ \E key \in LoadKeys : Remove(key)

SpecLoad == InitLoad /\ [][NextLoad]_vars

\* C19 (load factor): getLoadFactor() is itemCount / tableSize, with the
\* actual number of slots and not the requested size, under chaining, linear
\* probing and double hashing. On a double-hashing table of 7 slots every
\* set of a new key succeeds while fewer than 5 are stored, and with 5
\* distinct keys stored the load factor is 5/7 and get finds all 5.
C19_LoadFactor ==
    /\ \A lf \in {getLoadFactor(This)} :
           /\ lf[2] > 0
           /\ lf[1] * tableSize = itemCount * lf[2]
           /\ lf[1] * Len(buckets) = Cardinality(LivePositions(This)) * lf[2]
    /\ (collisionResolution = DoubleHashing /\ tableSize = 7) =>
           /\ Cardinality(LiveKeys(This)) < 5 =>
                  \A key \in LoadKeys \ LiveKeys(This) :
                      \A r \in {set(This, key, "x", NoDraw)} :
                          /\ ~r.threw
                          /\ r.t.itemCount = itemCount + 1
           /\ Cardinality(LiveKeys(This)) = 5 =>
                  /\ getLoadFactor(This)[1] * 7 = 5 * getLoadFactor(This)[2]
                  /\ \A key \in LoadKeys : Lookup(This, key) = "x"

\* A double-hashing table asked for 6 slots that has 7, after a set that
\* left it with all 5 keys stored: the load factor is 5/7, not 5/6.
C19_Witness ==
    /\ last.op = "set"
    /\ ~last.threw
    /\ itemCount = 5
    /\ collisionResolution = DoubleHashing
    /\ size = 6
    /\ tableSize = 7
    /\ LiveKeys(This) = LoadKeys
    /\ getLoadFactor(This) = <<5, 7>>


-----------------------------------------------------------------------------
(* The fallback machine: tables constructed with a hashing strategy that   *)
(* is no member of the enum.                                               *)

\* A value of hashingStrategy outside the enum HashingStrategy.
UnknownStrategy == "PERFECT"

InitFallback ==
    Constructed(RequestedSizes, {UnknownStrategy}, CollisionResolution)

NextFallback ==
    \/ \E key \in OverflowKeys, value \in Values : Set(key, value)
    \/ \E key \in OverflowKeys : Get(key)
    \/ \E key \in OverflowKeys : Remove(key)
    \/ \E n \in RequestedSizes : Resize(n)

SpecFallback == InitFallback /\ [][NextFallback]_vars

\* The table t with the Simple strategy in place of its own.
AsSimple(t) == [t EXCEPT !.hashingStrategy = Simple]

\* Whether hash(key) on t returns the index and the steps of the Simple
\* strategy.
HashAsSimple(t, key) ==
    \A h \in {hash(t, key, NoDraw)} :
        \A hs \in {hash(AsSimple(t), key, NoDraw)} :
            /\ h.initialIndex = hs.initialIndex
            /\ h.steps = hs.steps
            /\ h.t = t

\* C20 as stated: with a hashing strategy outside {Simple, Universal}, hash
\* returns the initialIndex and the steps of the Simple strategy, and set,
\* get and remove end without an Error.
C20_Original ==
    hashingStrategy \notin HashingStrategy =>
        \A key \in OverflowKeys :
            /\ HashAsSimple(This, key)
            /\ \A value \in Values : ~set(This, key, value, NoDraw).threw

\* C20 (amended): with a hashing strategy outside {Simple, Universal}, hash
\* returns the initialIndex and the steps of the Simple strategy, and set,
\* get and remove do what they do under the Simple strategy: get and remove
\* end without an Error, and set ends with an Error only when the key is new
\* and every slot of an open-addressing table holds an entry (the overflow
\* Error).
C20_FallsBackToSimple ==
    hashingStrategy \notin HashingStrategy =>
        \A key \in OverflowKeys :
            /\ HashAsSimple(This, key)
            /\ \A r \in {get(This, key, NoDraw)} :
                   \A rs \in {get(AsSimple(This), key, NoDraw)} :
                       /\ r.t = This
                       /\ r.value = rs.value
                       /\ r.finalIndex = rs.finalIndex
                       /\ r.probeSequence = rs.probeSequence
            /\ \A r \in {remove(This, key, NoDraw)} :
                   \A rs \in {remove(AsSimple(This), key, NoDraw)} :
                       /\ AsSimple(r.t) = rs.t
                       /\ r.success = rs.success
            /\ \A value \in Values :
                   \A r \in {set(This, key, value, NoDraw)} :
                       \A rs \in {set(AsSimple(This), key, value, NoDraw)} :
                           /\ AsSimple(r.t) = rs.t
                           /\ r.threw = rs.threw
                           /\ r.threw <=>
                                  /\ needsPrimeSize(collisionResolution)
                                  /\ itemCount = tableSize
                                  /\ key \notin LiveKeys(This)

\* A full open-addressing table of 3 slots with the unknown strategy, after
\* a set that ended with the overflow Error; "ab" is stored and found.
C20_Witness ==
    /\ hashingStrategy = UnknownStrategy
    /\ needsPrimeSize(collisionResolution)
    /\ last.op = "set"
    /\ last.threw
    /\ tableSize = 3
    /\ itemCount = 3
    /\ Lookup(This, <<97, 98>>) # NullValue
    /\ hash(This, <<97, 98>>, NoDraw).steps # <<>>


-----------------------------------------------------------------------------
(* The map machine: set, get and remove on a table as constructed, with    *)
(* the abstract key-to-value map of the calls made so far recorded next to *)
(* what each call returned.                                                *)

\* The abstract map with no key: NullValue stands for "not in the map".
EmptyMap == [key \in Keys |-> NullValue]

\* The record of a call in the map machine: the call, the abstract map after
\* it, what the call returned and what the abstract map answers.
MapCall(op, map, actual, expected) ==
    [op |-> op, map |-> map, actual |-> actual, expected |-> expected]

InitMap ==
    ConstructedAs(RequestedSizes, HashingStrategy, CollisionResolution,
                  MapCall("constructor", EmptyMap, "", ""))

\* A set that does not overflow: the map gets key |-> value, and isUpdate
\* is expected exactly when key was in the map.
SetInMap(key, value) ==
    \E r \in {set(This, key, value, NoDraw)} :
        /\ ~r.threw
        /\ Install(r.t)
        /\ last' = MapCall("set", [last.map EXCEPT ![key] = value],
                           r.isUpdate, last.map[key] # NullValue)

\* A get: the map is left alone and answers with its value of key.
GetInMap(key) ==
    \E r \in {get(This, key, NoDraw)} :
        /\ Install(r.t)
        /\ last' = MapCall("get", last.map, r.value, last.map[key])

\* A remove: key leaves the map, and success is expected exactly when key
\* was in the map.
RemoveInMap(key) ==
    \E r \in {remove(This, key, NoDraw)} :
        /\ Install(r.t)
        /\ last' = MapCall("remove", [last.map EXCEPT ![key] = NullValue],
                           r.success, last.map[key] # NullValue)

NextMap ==
    \/ \E key \in Keys, value \in Values : SetInMap(key, value)
    \/ \E key \in Keys : GetInMap(key)
    \/ \E key \in Keys : RemoveInMap(key)

SpecMap == InitMap /\ [][NextMap]_vars

\* C21 (refinement of a map): under each of the three collision policies,
\* after any sequence of set, get and remove calls with no overflowing set,
\* every call returned what the abstract key-to-value map answers (get the
\* value of the latest set not followed by a remove, or not found; remove
\* success exactly when the key was in the map; set isUpdate exactly when the
\* key was in the map), itemCount is the size of the map, and the table
\* holds exactly the entries of the map.
C21_RefinesMap ==
    /\ last.actual = last.expected
    /\ itemCount = Cardinality({ key \in Keys : last.map[key] # NullValue })
    /\ LiveKeys(This) = { key \in Keys : last.map[key] # NullValue }
    /\ \A key \in Keys : Lookup(This, key) = last.map[key]

\* After a get that found "ab" with the value "y" in a probing table, where
\* "ab" had been set, removed and set again: a tombstone is left and the
\* map holds two keys.
C21_Witness ==
    /\ last.op = "get"
    /\ last.actual = "y"
    /\ last.map[<<97, 98>>] = "y"
    /\ needsPrimeSize(collisionResolution)
    /\ Tombstones(This) # {}
    /\ itemCount = 2


\* The slots of a probing table holding null (0-based).
EmptySlots(t) ==
    IF t.collisionResolution = Chaining THEN {}
    ELSE { i - 1 : i \in { j \in 1 .. Len(t.buckets) : IsNull(t.buckets[j]) } }

\* C22 (overflow exactly on a full table): under open addressing set(k, v)
\* ends with the overflow Error if and only if k has no live entry and all
\* tableSize slots hold a live entry (itemCount = tableSize); whenever some
\* slot is null or DELETED_MARKER the set of any key succeeds.
C22_OverflowIff ==
    needsPrimeSize(collisionResolution) =>
        \A key \in LoadKeys, value \in Values :
            \A r \in {set(This, key, value, NoDraw)} :
                /\ r.threw <=>
                       /\ key \notin LiveKeys(This)
                       /\ itemCount = tableSize
                       /\ Cardinality(LivePositions(This)) = tableSize
                /\ (EmptySlots(This) \cup Tombstones(This) # {}) => ~r.threw

\* After a remove on a table of 3 slots with no null slot: one tombstone,
\* two entries, and the set of a key that is not stored succeeds. (On the
\* full table before the remove that set overflowed.)
C22_Witness ==
    /\ last.op = "remove"
    /\ needsPrimeSize(collisionResolution)
    /\ tableSize = 3
    /\ EmptySlots(This) = {}
    /\ Cardinality(Tombstones(This)) = 1
    /\ itemCount = 2
    /\ \E key \in LoadKeys \ LiveKeys(This) :
           ~set(This, key, "x", NoDraw).threw


\* C23 (slots are never emptied in place): under open addressing no step of
\* set, get or remove turns a slot holding an entry or DELETED_MARKER into a
\* null slot; remove changes one slot at most, from an entry to
\* DELETED_MARKER. Null slots come from resize, clear and setStrategies only,
\* which replace the whole storage.
C23_NeverEmptied ==
    [][ (needsPrimeSize(collisionResolution)
            /\ last'.op \in {"set", "get", "remove"}) =>
          /\ Len(buckets') = Len(buckets)
          /\ \A i \in 1 .. Len(buckets) :
                 ~IsNull(buckets[i]) => ~IsNull(buckets'[i])
          /\ last'.op = "remove" =>
                 \A i \in 1 .. Len(buckets) :
                     buckets'[i] # buckets[i] =>
                         /\ buckets[i].tag = "node"
                         /\ buckets'[i] = DELETED_MARKER
                         /\ \A j \in 1 .. Len(buckets) :
                                j # i => buckets'[j] = buckets[j]
      ]_vars

\* After a remove on a probing table of 3 slots: two tombstones, one entry
\* and no null slot.
C23_Witness ==
    /\ last.op = "remove"
    /\ needsPrimeSize(collisionResolution)
    /\ tableSize = 3
    /\ Cardinality(Tombstones(This)) = 2
    /\ EmptySlots(This) = {}
    /\ itemCount = 1


\* The number of probes before the first null slot on the probe cycle c of
\* the table t; tableSize when the cycle meets no null slot.
ProbesBeforeEmpty(t, c) ==
    IF \E i \in DOMAIN c : IsNull(t.buckets[c[i] + 1])
    THEN CHOOSE i \in DOMAIN c :
            /\ IsNull(t.buckets[c[i] + 1])
            /\ \A j \in 0 .. (i - 1) : ~IsNull(t.buckets[c[j] + 1])
    ELSE t.tableSize

\* The slot an insertion of a key with the probe cycle c goes to: the first
\* DELETED_MARKER slot met before the first null slot, else the first null
\* slot, else -1.
InsertionSlot(t, c) ==
    LET e == ProbesBeforeEmpty(t, c)
        ts == { i \in 0 .. (e - 1) : IsDeleted(t.buckets[c[i] + 1]) }
    IN  IF ts # {} THEN c[CHOOSE i \in ts : \A j \in ts : i <= j]
        ELSE IF e < t.tableSize THEN c[e]
        ELSE -1

\* C24 (where a new entry goes): under open addressing the set of a key with
\* no live entry stores the entry at the first DELETED_MARKER slot of the
\* key's probe sequence when one comes before the first null slot (or when
\* there is no null slot), and at the first null slot otherwise; the probing
\* goes past DELETED_MARKER slots and entries of other keys and stops at the
\* first null slot.
C24_InsertionSlot ==
    needsPrimeSize(collisionResolution) =>
        \A key \in LoadKeys \ LiveKeys(This) :
            \A c \in {ProbeCycle(This, key)} :
                \A r \in {set(This, key, "x", NoDraw)} :
                    \A e \in {ProbesBeforeEmpty(This, c)} :
                        /\ r.finalIndex = InsertionSlot(This, c)
                        /\ r.threw <=> r.finalIndex = -1
                        /\ r.probes = IF e < tableSize THEN e + 1 ELSE tableSize
                        /\ r.probeSequence = [k \in 1 .. r.probes |-> c[k - 1]]
                        /\ ~r.threw =>
                               r.t.buckets =
                                   [buckets EXCEPT ![r.finalIndex + 1] =
                                        HashTableNode(key, "x")]

\* A table of 5 slots where the probe sequence of a key that is not stored
\* meets an entry of another key, then a tombstone, then another slot
\* before it ends: the set stores the key in the tombstone, not in the null
\* slot where the probing stops.
C24_Witness ==
    /\ needsPrimeSize(collisionResolution)
    /\ tableSize = 5
    /\ last.op = "remove"
    /\ \E key \in LoadKeys \ LiveKeys(This) :
           \E r \in {set(This, key, "x", NoDraw)} :
               /\ r.probes >= 3
               /\ buckets[r.probeSequence[1] + 1].tag = "node"
               /\ IsDeleted(buckets[r.probeSequence[2] + 1])
               /\ IsNull(buckets[r.probeSequence[r.probes] + 1])
               /\ r.finalIndex = r.probeSequence[2]


\* C25 (one probe for all operations): under open addressing, in every
\* reachable state and for every key, get(k), remove(k) and set(k, v) each
\* applied to that state report the same probes and the same probeSequence,
\* and when k has a live entry the same finalIndex: the slot get reads is the
\* slot set overwrites and the slot remove turns into DELETED_MARKER.
C25_SharedProbe ==
    needsPrimeSize(collisionResolution) =>
        \A key \in LoadKeys :
            \A g \in {get(This, key, NoDraw)} :
                \A d \in {remove(This, key, NoDraw)} :
                    \A s \in {set(This, key, "y", NoDraw)} :
                        /\ g.probes = d.probes
                        /\ g.probes = s.probes
                        /\ g.probeSequence = d.probeSequence
                        /\ g.probeSequence = s.probeSequence
                        /\ g.initialIndex = d.initialIndex
                        /\ g.initialIndex = s.initialIndex
                        /\ key \in LiveKeys(This) =>
                               /\ g.finalIndex = d.finalIndex
                               /\ g.finalIndex = s.finalIndex
                               /\ buckets[g.finalIndex + 1].key = key
                               /\ d.t.buckets[g.finalIndex + 1] = DELETED_MARKER
                               /\ s.t.buckets[g.finalIndex + 1] =
                                      HashTableNode(key, "y")

\* A double-hashing table of 5 slots where a stored key is found at its
\* third probe, with a step other than 1, past a tombstone.
C25_Witness ==
    /\ collisionResolution = DoubleHashing
    /\ tableSize = 5
    /\ \E key \in LiveKeys(This) :
           /\ ProbeStep(This, key) > 1
           /\ get(This, key, NoDraw).probes = 3
           /\ Range(get(This, key, NoDraw).probeSequence)
                  \cap Tombstones(This) # {}


\* The probe cycle of linear probing for key on the table t.
LinearCycle(t, key) ==
    [i \in 0 .. (t.tableSize - 1) |->
        ProbeIndex(InitialIndex(t, key), 1, i, t.tableSize)]

LargestPrimeBelow(n) ==
    IF \E q \in 2 .. (n - 1) : Prime(q)
    THEN CHOOSE q \in 2 .. (n - 1) :
            Prime(q) /\ \A q2 \in (q + 1) .. (n - 1) : ~Prime(q2)
    ELSE 1

-----------------------------------------------------------------------------
(* The order machine: set, remove and resize on a chaining table, with the *)
(* keys recorded in the order in which their current entries were          *)
(* inserted.                                                               *)

\* The record of a call in the order machine: order lists the live keys by
\* the time their current entry was inserted (by a set of a key that was not
\* stored, those that resize makes to re-insert the entries included).
OrderCall(op, order) == [op |-> op, order |-> order]

\* The keys of a sequence of entries.
KeysOf(entries) == [i \in 1 .. Len(entries) |-> entries[i].key]

InitOrder ==
    ConstructedAs(RequestedSizes, HashingStrategy, {Chaining},
                  OrderCall("constructor", <<>>))

SetInOrder(key, value) ==
    \E r \in {set(This, key, value, NoDraw)} :
        /\ Install(r.t)
        /\ last' = OrderCall("set", IF r.isUpdate THEN last.order
                                    ELSE Append(last.order, key))

RemoveInOrder(key) ==
    \E r \in {remove(This, key, NoDraw)} :
        /\ Install(r.t)
        /\ last' = OrderCall("remove",
                             SelectSeq(last.order, LAMBDA k : k # key))

\* resize empties the storage and calls set for the collected entries one
\* after the other: each call inserts.
ResizeInOrder(n) ==
    \E t \in {resize(This, n, NoDraw)} :
        /\ Install(t)
        /\ last' = OrderCall("resize", KeysOf(oldItems(This)))

NextOrder ==
    \/ \E key \in OverflowKeys, value \in Values : SetInOrder(key, value)
    \/ \E key \in OverflowKeys : RemoveInOrder(key)
    \/ \E n \in RequestedSizes : ResizeInOrder(n)

SpecOrder == InitOrder /\ [][NextOrder]_vars

\* The place of key in the sequence order; 0 when it is not in it.
PlaceIn(order, key) ==
    IF \E i \in 1 .. Len(order) : order[i] = key
    THEN CHOOSE i \in 1 .. Len(order) : order[i] = key
    ELSE 0

C29_ResizeFrame ==
    [][ last'.op = "resize" =>
          /\ universal_p' = universal_p
          /\ universal_a' = universal_a
          /\ universal_b' = universal_b
          /\ hashingStrategy' = hashingStrategy
          /\ collisionResolution' = collisionResolution
          /\ double_hashing_R' =
                 IF collisionResolution = DoubleHashing
                 THEN findPrevPrime(tableSize') ELSE double_hashing_R
      ]_vars

\* After a resize of a universal double-hashing table to 7 slots: R is 5,
\* entries are stored, and p is still the one drawn for another table size.
C29_Witness ==
    /\ last.op = "resize"
    /\ last.liveBefore > 0
    /\ hashingStrategy = Universal
    /\ collisionResolution = DoubleHashing
    /\ tableSize = 7
    /\ double_hashing_R = 5
    /\ universal_a > 1
    /\ universal_p # findNextPrime(700)
    /\ itemCount > 0


\* Whether the table t2 has the size, the slots, the strategies and the
\* parameters of the table t.
SameShape(t, t2) ==
    /\ t2.size = t.size
    /\ t2.tableSize = t.tableSize
    /\ Len(t2.buckets) = Len(t.buckets)
    /\ t2.hashingStrategy = t.hashingStrategy
    /\ t2.collisionResolution = t.collisionResolution
    /\ t2.double_hashing_R = t.double_hashing_R
    /\ t2.universal_p = t.universal_p
    /\ t2.universal_a = t.universal_a
    /\ t2.universal_b = t.universal_b

\* The keys set is tried with in the loading machine: its keys and "d".
TriedKeys == LoadKeys \cup { <<100>> }

\* C30 (no resize of its own): set, get and remove leave size, tableSize, the
\* length of the storage, both strategies, R and p, a, b as they are, in
\* every state; and under open addressing a set made while the load factor
\* is 0.7 or more still updates a stored key, and still inserts a new key as
\* long as a slot is null or DELETED_MARKER.
C30_NoAutoResize ==
    \A key \in TriedKeys :
        /\ \A t2 \in { set(This, key, "y", NoDraw).t, get(This, key, NoDraw).t,
                       remove(This, key, NoDraw).t } : SameShape(This, t2)
        /\ (needsPrimeSize(collisionResolution) /\ LoadFactorWarning(This)) =>
               \A r \in {set(This, key, "y", NoDraw)} :
                   /\ key \in LiveKeys(This) =>
                          /\ ~r.threw /\ r.isUpdate
                          /\ r.t.itemCount = itemCount
                   /\ (key \notin LiveKeys(This) /\ itemCount < tableSize) =>
                          /\ ~r.threw /\ ~r.isUpdate
                          /\ r.t.itemCount = itemCount + 1
                   /\ ~r.threw =>
                          /\ Lookup(r.t, key) = "y"
                          /\ \A k \in LiveKeys(This) \ {key} :
                                 Lookup(r.t, k) = Lookup(This, k)

\* After a set on a probing table of 7 slots that held 5 entries (load
\* factor 5/7 >= 0.7): the set of the new key "d" still succeeds and gives
\* 6 entries in 7 slots.
C30_Witness ==
    /\ last.op = "set"
    /\ needsPrimeSize(collisionResolution)
    /\ tableSize = 7
    /\ itemCount = 5
    /\ LoadFactorWarning(This)
    /\ ~set(This, <<100>>, "y", NoDraw).threw
    /\ set(This, <<100>>, "y", NoDraw).t.itemCount = 6
    /\ Len(set(This, <<100>>, "y", NoDraw).t.buckets) = 7


-----------------------------------------------------------------------------
(* The calls that rebuild the storage, resize and setStrategies, on tables *)
(* that set and remove have filled.                                        *)

NextRebuild ==
    \/ \E key \in Keys, value \in Values : Set(key, value)
    \/ \E key \in Keys : Remove(key)
    \/ \E n \in RequestedSizes : Resize(n)
    \/ \E hashing \in HashingStrategy, collision \in CollisionResolution :
            SetStrategies(hashing, collision)

SpecRebuild == Init /\ [][NextRebuild]_vars

\* The sizes resize is called with in C31: the requested sizes and a
\* negative one.
C31_Sizes == RequestedSizes \cup {-1}

\* C31 (what resize retains): in every reachable state and for every n,
\* resize(n) on a chaining table keeps every live entry with its value, and
\* for n <= 0 leaves a single bucket; on an open-addressing table it leaves
\* itemCount = min(itemCount before, new tableSize), and get returns for
\* every key that is still live the value it had before the resize.
C31_ResizeRetains ==
    \A n \in C31_Sizes :
        \A t2 \in {resize(This, n, NoDraw)} :
            IF collisionResolution = Chaining
            THEN /\ t2.itemCount = itemCount
                 /\ LiveKeys(t2) = LiveKeys(This)
                 /\ \A key \in LiveKeys(This) :
                        /\ Lookup(This, key) \in Values
                        /\ get(t2, key, NoDraw).value = Lookup(This, key)
                 /\ n <= 0 => /\ t2.tableSize = 1
                              /\ Len(t2.buckets) = 1
                              /\ Len(t2.buckets[1]) = itemCount
            ELSE /\ t2.itemCount = IF itemCount <= t2.tableSize
                                   THEN itemCount ELSE t2.tableSize
                 /\ Cardinality(LiveKeys(t2)) = t2.itemCount
                 /\ LiveKeys(t2) \subseteq LiveKeys(This)
                 /\ \A key \in LiveKeys(t2) :
                        /\ Lookup(This, key) \in Values
                        /\ get(t2, key, NoDraw).value = Lookup(This, key)

\* C31 witness: a resize has just returned on an open-addressing table that
\* held 3 entries and now holds 2 of them in its 2 slots.
C31_Witness ==
    /\ last.op = "resize"
    /\ needsPrimeSize(collisionResolution)
    /\ last.liveBefore = 3
    /\ tableSize = 2
    /\ itemCount = 2


\* C32 (setStrategies with the active strategies): in every reachable state
\* and for every random draw, setStrategies called with the active hashing
\* strategy and the active collision policy empties the table (itemCount 0,
\* every bucket empty or every slot null, none of the live keys found) and
\* keeps size, tableSize, R and (p, a, b).
C32_SameStrategiesClear ==
    \A rnd \in RandomPairs :
        \A t2 \in {setStrategies(This, hashingStrategy, collisionResolution,
                                 rnd)} :
            /\ t2.itemCount = 0
            /\ Len(t2.buckets) = tableSize
            /\ \A i \in 1 .. Len(t2.buckets) :
                    t2.buckets[i] = IF collisionResolution = Chaining
                                    THEN <<>> ELSE NullSlot
            /\ \A key \in LiveKeys(This) :
                    get(t2, key, NoDraw).value = NullValue
            /\ t2.hashingStrategy = hashingStrategy
            /\ t2.collisionResolution = collisionResolution
            /\ t2.size = size
            /\ t2.tableSize = tableSize
            /\ t2.double_hashing_R = double_hashing_R
            /\ t2.universal_p = universal_p
            /\ t2.universal_a = universal_a
            /\ t2.universal_b = universal_b

\* C32 witness: a setStrategies call with the strategies that were active
\* has just returned on a Universal double-hashing table that held 2 live
\* entries, and the table is empty.
C32_Witness ==
    /\ last.op = "setStrategies"
    /\ last.oldHashing = hashingStrategy
    /\ last.oldCollision = collisionResolution
    /\ hashingStrategy = Universal
    /\ collisionResolution = DoubleHashing
    /\ last.liveBefore >= 2
    /\ itemCount = 0
    /\ universal_a > 1


\* Whether (p, a, b) are as generateUniversalParams() leaves them for the
\* present tableSize and some draw: p the smallest prime >= 100 * tableSize,
\* a = floor(r1 * (p - 1)) + 1 and b = floor(r2 * p).
FreshParams ==
    /\ SmallestPrimeFrom(tableSize * 100, universal_p)
    /\ \E rnd \in RandomPairs :
           /\ universal_a
                = ((rnd[1][1] * (universal_p - 1)) \div rnd[1][2]) + 1
           /\ universal_b = (rnd[2][1] * universal_p) \div rnd[2][2]

\* C33 (universal parameters): in every reachable state where Universal is
\* the active hashing strategy, whatever the random draws were, p is prime,
\* 1 <= a <= p - 1 and 0 <= b <= p - 1; and after the constructor, after a
\* setStrategies call that switched to Universal, and after one that
\* switched between chaining and open addressing with Universal kept, the
\* parameters are freshly generated for the present tableSize.
C33_UniversalParams ==
    hashingStrategy = Universal =>
        /\ Prime(universal_p)
        /\ 1 <= universal_a /\ universal_a <= universal_p - 1
        /\ 0 <= universal_b /\ universal_b <= universal_p - 1
        /\ last.op = "constructor" => FreshParams
        /\ ( /\ last.op = "setStrategies"
             /\ \/ last.oldHashing # Universal
                \/ needsPrimeSize(last.oldCollision)
                     # needsPrimeSize(collisionResolution) ) => FreshParams

\* C33 witness: setStrategies has just switched a Universal chaining table
\* of 2 buckets that held entries to open addressing (2 slots), and p is
\* 211, the smallest prime from 200 on, a is above 1.
C33_Witness ==
    /\ last.op = "setStrategies"
    /\ last.oldHashing = Universal
    /\ last.oldCollision = Chaining
    /\ last.liveBefore >= 1
    /\ hashingStrategy = Universal
    /\ needsPrimeSize(collisionResolution)
    /\ size = 2
    /\ tableSize = 2
    /\ universal_p = 211
    /\ universal_a > 1


-----------------------------------------------------------------------------
(* The skip list (src/src/algorithm/SkipList.ts).  skipList.head is the    *)
(* next array of the head node, skipList.nodes[v] the next array of the    *)
(* node of value v; level i of the code is element i + 1 of an array.      *)

\* Largest value a caller inserts into the skip list.
MaxSkipValue == 4

\* The values the callers insert, delete and search.
SkipValues == 1 .. MaxSkipValue

\* this.head, as a pointer to a node.
HeadNode == -1

\* node.next[i]; a level the node does not have reads undefined, which the
\* loops treat as null.
NextOf(sl, node, i) ==
    LET next == IF node = HeadNode THEN sl.head ELSE sl.nodes[node]
    IN  IF i + 1 <= Len(next) THEN next[i + 1] ELSE NullNode

\* node.next[i] = target
SetNext(sl, node, i, target) ==
    IF node = HeadNode
    THEN [sl EXCEPT !.head[i + 1] = target]
    ELSE [sl EXCEPT !.nodes[node][i + 1] = target]

\* randomLevel() for the samples draws of Math.random(): 1 + the number of
\* leading samples below probability = 1/2, at most maxLevel.
RECURSIVE randomLevel(_, _, _)
randomLevel(maxLevel, draws, level) ==
    IF /\ level <= Len(draws)
       /\ 2 * draws[level][1] < draws[level][2]
       /\ level < maxLevel
    THEN randomLevel(maxLevel, draws, level + 1)
    ELSE level

\* The sequences of samples one randomLevel() call may draw.
LevelDraws(maxLevel) == [1 .. (maxLevel - 1) -> RandomSamples]

\* while (current.next[i] && current.next[i].value < value)
\*     current = current.next[i];
RECURSIVE SkipAdvance(_, _, _, _)
SkipAdvance(sl, current, i, value) ==
    Only({ IF next # NullNode /\ next < value
           THEN SkipAdvance(sl, next, i, value)
           ELSE current : next \in {NextOf(sl, current, i)} })

\* for (let i = maxLevel - 1; i >= 0; i--) { while ...; update[i] = current }
\* from level i on: the node the descent ends at and the array update.
RECURSIVE Descend(_, _, _, _, _)
Descend(sl, current, i, value, update) ==
    IF i < 0
    THEN [current |-> current, update |-> update]
    ELSE Only({ Descend(sl, c, i - 1, value, [update EXCEPT ![i + 1] = c]) :
                c \in {SkipAdvance(sl, current, i, value)} })

\* The descent of insert, search and delete from the head.
Predecessors(sl, value) ==
    Descend(sl, HeadNode, sl.maxLevel - 1, value,
            [i \in 1 .. sl.maxLevel |-> NullNode])

\* search(value)
SkipList_search(sl, value) ==
    \E current \in {NextOf(sl, Predecessors(sl, value).current, 0)} :
        current # NullNode /\ current = value

\* The loop of linearSearch(value) from the node current.
RECURSIVE LinearSearchLoop(_, _, _)
LinearSearchLoop(sl, current, value) ==
    IF current = NullNode THEN FALSE
    ELSE IF current = value THEN TRUE
    ELSE LinearSearchLoop(sl, NextOf(sl, current, 0), value)

\* linearSearch(value)
SkipList_linearSearch(sl, value) ==
    LinearSearchLoop(sl, NextOf(sl, HeadNode, 0), value)

\* new SkipListNode(value, level) added to the nodes.
WithNode(sl, value, level) ==
    [sl EXCEPT !.nodes =
        [v \in (DOMAIN sl.nodes) \cup {value} |->
            IF v = value THEN [i \in 1 .. level |-> NullNode]
            ELSE sl.nodes[v]]]

\* for (let i = 0; i < level; i++) {
\*     newNode.next[i] = update[i]?.next[i] || null;
\*     if (update[i]) update[i].next[i] = newNode; }
RECURSIVE InsertLoop(_, _, _, _, _)
InsertLoop(sl, update, value, level, i) ==
    IF i >= level THEN sl
    ELSE Only({ InsertLoop(SetNext(sl1, update[i + 1], i, value),
                           update, value, level, i + 1) :
                sl1 \in {SetNext(sl, value, i,
                                 NextOf(sl, update[i + 1], i))} })

\* insert(value), level being what randomLevel() returns.
SkipList_insert(sl, value, level) ==
    IF SkipList_search(sl, value) THEN sl
    ELSE InsertLoop(WithNode(sl, value, level),
                    Predecessors(sl, value).update, value, level, 0)

\* Mutant of DeleteLoop: the target is unlinked at level 0 only.
RECURSIVE DeleteLoop_LevelZero(_, _, _, _)
DeleteLoop_LevelZero(sl, update, target, i) ==
    IF i >= 1 THEN sl
    ELSE IF NextOf(sl, update[i + 1], i) # target THEN sl
    ELSE DeleteLoop_LevelZero(
             SetNext(sl, update[i + 1], i, NextOf(sl, target, i)),
             update, target, i + 1)

\* for (let i = 0; i < maxLevel; i++) {
\*     if (update[i]?.next[i] !== target) break;
\*     update[i].next[i] = target.next[i]; }
RECURSIVE DeleteLoop(_, _, _, _)
DeleteLoop(sl, update, target, i) ==
    IF i >= sl.maxLevel THEN sl
    ELSE IF NextOf(sl, update[i + 1], i) # target THEN sl
    ELSE DeleteLoop(SetNext(sl, update[i + 1], i, NextOf(sl, target, i)),
                    update, target, i + 1)

\* The nodes some pointer leads to from the nodes of S.
RECURSIVE Linked(_, _)
Linked(sl, S) ==
    LET more == { NextOf(sl, node, i) :
                    node \in S, i \in 0 .. (sl.maxLevel - 1) } \ {NullNode}
    IN  IF more \subseteq S THEN S ELSE Linked(sl, S \cup more)

\* The list without the nodes no pointer leads to (the garbage of delete).
Collected(sl) ==
    [sl EXCEPT !.nodes =
        [v \in Linked(sl, {HeadNode}) \ {HeadNode} |-> sl.nodes[v]]]

\* delete(value)
SkipList_delete(sl, value) ==
    \* the descent, then let target = current.next[0]
    LET d == Predecessors(sl, value)
        target == NextOf(sl, d.current, 0)
    IN  IF target # NullNode /\ target = value
        THEN Collected(DeleteLoop(sl, d.update, target, 0))
        ELSE sl

\* The record of a call on the skip list: its name and the values inserted
\* and not deleted since.
SkipCall(op, members) == [op |-> op, members |-> members]

InitSkipList ==
    ConstructedAs({1}, {Simple}, {Chaining}, SkipCall("constructor", {}))

SkipInsert(value) ==
    \E draws \in LevelDraws(skipList.maxLevel) :
        /\ skipList' = SkipList_insert(skipList, value,
                           randomLevel(skipList.maxLevel, draws, 1))
        /\ last' = SkipCall("insert", last.members \cup {value})
        /\ UNCHANGED <<tableVars, bst, bfs, linkedList>>

SkipDelete(value) ==
    /\ skipList' = SkipList_delete(skipList, value)
    /\ last' = SkipCall("delete", last.members \ {value})
    /\ UNCHANGED <<tableVars, bst, bfs, linkedList>>

NextSkipList ==
    \/ \E value \in SkipValues : SkipInsert(value)
    \/ \E value \in SkipValues : SkipDelete(value)

SpecSkipList == InitSkipList /\ [][NextSkipList]_vars

\* The values of the nodes met from the node on by following next[i], at
\* most fuel of them.
RECURSIVE ChainFrom(_, _, _, _)
ChainFrom(sl, node, i, fuel) ==
    IF node = NullNode \/ fuel = 0 THEN <<>>
    ELSE <<node>> \o ChainFrom(sl, NextOf(sl, node, i), i, fuel - 1)

\* The list of level i: the values met from head.next[i] on; one value more
\* than there are nodes when the pointers of the level run in a circle.
LevelList(sl, i) ==
    ChainFrom(sl, NextOf(sl, HeadNode, i), i,
              Cardinality(DOMAIN sl.nodes) + 1)

\* Whether the numbers of the sequence s are strictly increasing.
StrictlyIncreasing(s) == \A j \in 1 .. (Len(s) - 1) : s[j] < s[j + 1]

\* Whether s is a sub-sequence of t: t with some elements left out.
RECURSIVE IsSubsequence(_, _)
IsSubsequence(s, t) ==
    IF s = <<>> THEN TRUE
    ELSE IF t = <<>> THEN FALSE
    ELSE IF Head(s) = Head(t) THEN IsSubsequence(Tail(s), Tail(t))
    ELSE IsSubsequence(s, Tail(t))

\* C35 (skip list): after any sequence of insert and delete calls and for
\* every level randomLevel() chose, the level-0 list is strictly increasing
\* (no value twice), the list of every higher level is a sub-sequence of the
\* list of the level below, and search(v) and linearSearch(v) both return
\* true exactly when v was inserted and not deleted since.
C35_SkipListOrdered ==
    /\ StrictlyIncreasing(LevelList(skipList, 0))
    /\ \A i \in 1 .. (skipList.maxLevel - 1) :
           IsSubsequence(LevelList(skipList, i), LevelList(skipList, i - 1))
    /\ \A v \in 1 .. (MaxSkipValue + 1) :
           /\ SkipList_search(skipList, v) = (v \in last.members)
           /\ SkipList_linearSearch(skipList, v) = (v \in last.members)

\* C35 witness: a delete has just returned on a skip list that still holds
\* 3 values, 2 of them on level 1 and 1 of those on the top level.
C35_Witness ==
    /\ last.op = "delete"
    /\ Cardinality(last.members) = 3
    /\ Len(LevelList(skipList, 0)) = 3
    /\ Len(LevelList(skipList, 1)) = 2
    /\ Len(LevelList(skipList, skipList.maxLevel - 1)) = 1
    /\ SkipList_search(skipList, LevelList(skipList, 0)[3])


-----------------------------------------------------------------------------
(* The binary search tree (src/src/algorithm/BstTree.ts, the class BST of  *)
(* lines 52-243).  A TreeNode is the tuple <<value, left, right>>, null    *)
(* the empty tuple.                                                        *)

\* Largest value a caller inserts into the tree.
MaxBstValue == 3

\* The values the callers insert, remove and search.
BstValues == 1 .. MaxBstValue

\* new TreeNode(value)
TreeNode(value) == <<value, NullTree, NullTree>>

\* The _insertRecursive of the class of lines 13-38: a value equal to the
\* node's goes to the right subtree.
RECURSIVE _insertRecursive_NoEqualTest(_, _)
_insertRecursive_NoEqualTest(node, value) ==
    IF node = NullTree THEN TreeNode(value)
    ELSE IF value < node[1]
    THEN [node EXCEPT ![2] = _insertRecursive_NoEqualTest(node[2], value)]
    ELSE [node EXCEPT ![3] = _insertRecursive_NoEqualTest(node[3], value)]

\* _insertRecursive(node, value)
RECURSIVE _insertRecursive(_, _)
_insertRecursive(node, value) ==
    IF node = NullTree THEN TreeNode(value)
    ELSE IF value < node[1]
    THEN [node EXCEPT ![2] = _insertRecursive(node[2], value)]
    ELSE IF value > node[1]
    THEN [node EXCEPT ![3] = _insertRecursive(node[3], value)]
    ELSE node

\* insert(value)
BST_insert(t, value) == [t EXCEPT !.root = _insertRecursive(t.root, value)]

\* The loop of search(value) from node: the node found, or null.
RECURSIVE SearchLoop(_, _)
SearchLoop(node, value) ==
    IF node = NullTree THEN NullTree
    ELSE IF value = node[1] THEN node
    ELSE IF value < node[1] THEN SearchLoop(node[2], value)
    ELSE SearchLoop(node[3], value)

\* search(value)
BST_search(t, value) == SearchLoop(t.root, value)

\* _findMinValueNode(node)
RECURSIVE _findMinValueNode(_)
_findMinValueNode(node) ==
    IF node[2] # NullTree THEN _findMinValueNode(node[2]) ELSE node

\* _removeRecursive(node, value)
RECURSIVE _removeRecursive(_, _)
_removeRecursive(node, value) ==
    IF node = NullTree THEN NullTree
    ELSE IF value < node[1]
    THEN [node EXCEPT ![2] = _removeRecursive(node[2], value)]
    ELSE IF value > node[1]
    THEN [node EXCEPT ![3] = _removeRecursive(node[3], value)]
    ELSE IF node[2] = NullTree /\ node[3] = NullTree THEN NullTree
    ELSE IF node[2] = NullTree THEN node[3]
    ELSE IF node[3] = NullTree THEN node[2]
    ELSE Only({ [node EXCEPT ![1] = successor[1],
                             ![3] = _removeRecursive(node[3], successor[1])] :
                successor \in {_findMinValueNode(node[3])} })

\* remove(value)
BST_remove(t, value) == [t EXCEPT !.root = _removeRecursive(t.root, value)]

\* The name of a queue entry of searchBFS: the value of the node, 0 for null.
EntryOf(node) == IF node = NullTree THEN NullNode ELSE node[1]

\* The node of the tree that the queue entry v names.
RECURSIVE NodeOf(_, _)
NodeOf(node, v) ==
    IF node = NullTree \/ v = NullNode THEN NullTree
    ELSE IF node[1] = v THEN node
    ELSE IF NodeOf(node[2], v) # NullTree THEN NodeOf(node[2], v)
    ELSE NodeOf(node[3], v)

\* The queue of searchBFS as the number of copies of each entry.  The code
\* shuffles the queue after every node it expands, with every permutation a
\* possible outcome, so that the order of the entries carries nothing.
EmptyQueue == [v \in 0 .. MaxBstValue |-> 0]

\* queue.push(node), copies times.
Pushed(queue, node, copies) ==
    [queue EXCEPT ![EntryOf(node)] = @ + copies]

\* The entries queue.shift() may return after a shuffle.
Shiftable(queue) == { v \in DOMAIN queue : queue[v] > 0 }

\* The record of a call on the tree: its name, the values inserted and not
\* removed since, and for a searchBFS its argument and, once it has returned
\* (op "searchBFS"; "searchBFS called" before), the node it returned.
BstCall(op, members, value, returned) ==
    [op |-> op, members |-> members, value |-> value, returned |-> returned]

InitBst ==
    ConstructedAs({1}, {Simple}, {Chaining},
                  BstCall("constructor", {}, 0, NullTree))

BstInsert(value) ==
    /\ ~bfs.active
    /\ bst' = BST_insert(bst, value)
    /\ last' = BstCall("insert", last.members \cup {value}, 0, NullTree)
    /\ UNCHANGED <<tableVars, skipList, bfs, linkedList>>

BstRemove(value) ==
    /\ ~bfs.active
    /\ bst' = BST_remove(bst, value)
    /\ last' = BstCall("remove", last.members \ {value}, 0, NullTree)
    /\ UNCHANGED <<tableVars, skipList, bfs, linkedList>>

\* searchBFS(value) up to the loop: const queue = [this.root].
SearchBFS(value) ==
    /\ ~bfs.active
    /\ bfs' = [active |-> TRUE, value |-> value,
               queue |-> Pushed(EmptyQueue, bst.root, 1)]
    /\ last' = BstCall("searchBFS called", last.members, value, NullTree)
    /\ UNCHANGED <<tableVars, skipList, bst, linkedList>>

\* searchBFS(value) leaves the loop and returns.
BfsReturn(node) ==
    /\ bfs' = NoSearch
    /\ last' = BstCall("searchBFS", last.members, bfs.value, node)

\* One round of the loop of searchBFS: the test of the queue, the shift, and
\* for a node of another value the six pushes and the shuffle.
BfsStep ==
    /\ bfs.active
    /\ IF Shiftable(bfs.queue) = {}
       THEN BfsReturn(NullTree)
       ELSE \E v \in Shiftable(bfs.queue) :
              \E node \in {NodeOf(bst.root, v)} :
                IF node = NullTree
                THEN /\ bfs' = [bfs EXCEPT !.queue[v] = @ - 1]
                     /\ UNCHANGED last
                ELSE IF node[1] = bfs.value
                THEN BfsReturn(node)
                ELSE /\ bfs' = [bfs EXCEPT !.queue =
                                  Pushed(Pushed([bfs.queue EXCEPT
                                                    ![v] = @ - 1],
                                                node[2], 3),
                                         node[3], 3)]
                     /\ UNCHANGED last
    /\ UNCHANGED <<tableVars, skipList, bst, linkedList>>

NextBst ==
    \/ \E value \in BstValues : BstInsert(value)
    \/ \E value \in BstValues : BstRemove(value)
    \/ \E value \in 1 .. (MaxBstValue + 1) : SearchBFS(value)
    \/ BfsStep

\* searchBFS runs to its end once called: the loop is synchronous code.
SpecBst == InitBst /\ [][NextBst]_vars /\ WF_vars(BfsStep)

\* The in-order traversal of the tree.
RECURSIVE InOrder(_)
InOrder(node) ==
    IF node = NullTree THEN <<>>
    ELSE InOrder(node[2]) \o <<node[1]>> \o InOrder(node[3])

\* The tree is a search tree holding the values inserted and not removed
\* since, insert and search treat every value accordingly, and a searchBFS
\* that has returned returned what search returns.
BstConsistent ==
    /\ StrictlyIncreasing(InOrder(bst.root))
    /\ Range(InOrder(bst.root)) = last.members
    /\ \A v \in 1 .. (MaxBstValue + 1) :
           /\ (BST_search(bst, v) # NullTree) = (v \in last.members)
           /\ BST_search(bst, v) = NodeOf(bst.root, v)
           /\ v \in last.members => BST_insert(bst, v) = bst
           /\ StrictlyIncreasing(InOrder(BST_remove(bst, v).root))
    /\ last.op = "searchBFS" =>
           /\ last.returned = BST_search(bst, last.value)
           /\ (last.returned # NullTree) = (last.value \in last.members)

\* C36 (binary search tree): after any sequence of insert and remove calls
\* the in-order traversal is strictly increasing (the insert of a value that
\* is in the tree changes nothing, the remove of a node with two children
\* keeps the order); for every value v and every outcome of the shuffles,
\* searchBFS(v) terminates, and returns a node exactly when search(v) does,
\* which is exactly when v was inserted and not removed since.
C36_BstOrdered == []BstConsistent /\ (bfs.active ~> ~bfs.active)

\* C36 witness: searchBFS has just returned the right child of the root of
\* a tree of 3 values whose root has two children.
C36_Witness ==
    /\ last.op = "searchBFS"
    /\ ~bfs.active
    /\ Len(InOrder(bst.root)) = 3
    /\ bst.root[2] # NullTree /\ bst.root[3] # NullTree
    /\ last.returned = bst.root[3]
    /\ last.returned = BST_search(bst, last.value)


-----------------------------------------------------------------------------
(* The self-organizing linked list (src/unnamed/part_001, the class        *)
(* LinkedListLogic).  linkedList.head is this.head, linkedList.next[v] the *)
(* next pointer of the node of value v.                                    *)

\* Largest value a caller inserts into the list.
MaxListValue == 4

\* The values the callers insert.
ListValues == 1 .. MaxListValue

\* The values the callers search: those they insert and one they never do.
SearchedValues == 1 .. (MaxListValue + 1)

\* The loop of contains(value) from the node current.
RECURSIVE ContainsLoop(_, _, _)
ContainsLoop(l, current, value) ==
    IF current = NullNode THEN FALSE
    ELSE IF current = value THEN TRUE
    ELSE ContainsLoop(l, l.next[current], value)

\* contains(value)
LinkedList_contains(l, value) == ContainsLoop(l, l.head, value)

\* while (current.next) current = current.next;
RECURSIVE LastNode(_, _)
LastNode(l, current) ==
    IF l.next[current] # NullNode THEN LastNode(l, l.next[current])
    ELSE current

\* new Node(value) added to the nodes, its next being null.
WithListNode(l, value) ==
    [l EXCEPT !.next = [v \in (DOMAIN l.next) \cup {value} |->
                            IF v = value THEN NullNode ELSE l.next[v]]]

\* insert(value)
LinkedList_insert(l, value) ==
    IF LinkedList_contains(l, value) THEN l
    ELSE IF l.head = NullNode
    THEN [WithListNode(l, value) EXCEPT !.head = value]
    ELSE [WithListNode(l, value) EXCEPT !.next[LastNode(l, l.head)] = value]

\* while (current && current.value !== value) {
\*     prevPrev = prev; prev = current; current = current.next; }
RECURSIVE FindLoop(_, _, _, _, _)
FindLoop(l, prevPrev, prev, current, value) ==
    IF current # NullNode /\ current # value
    THEN FindLoop(l, prev, current, l.next[current], value)
    ELSE [prevPrev |-> prevPrev, prev |-> prev, current |-> current]

\* searchMoveToFront(value): the list after the call and the node returned.
LinkedList_searchMoveToFront(l, value) ==
    IF l.head = NullNode \/ l.head = value
    THEN [l |-> l, returned |-> l.head]
    ELSE Only({ IF f.current # NullNode /\ f.prev # NullNode
                THEN [l |-> [l EXCEPT !.next[f.prev] = l.next[f.current],
                                      !.next[f.current] = l.head,
                                      !.head = f.current],
                      returned |-> f.current]
                ELSE [l |-> l, returned |-> f.current] :
                f \in {FindLoop(l, NullNode, NullNode, l.head, value)} })

\* Mutant of searchTranspose: the node found is moved to the front.
LinkedList_searchTranspose_ToFront(l, value) ==
    LinkedList_searchMoveToFront(l, value)

\* searchTranspose(value): the list after the call and the node returned.
LinkedList_searchTranspose(l, value) ==
    IF l.head = NullNode \/ l.head = value
    THEN [l |-> l, returned |-> l.head]
    ELSE Only({ IF f.current # NullNode /\ f.prev # NullNode
                THEN [l |-> \* prevPrev.next = current or this.head = current;
                            \* prev.next = current.next; current.next = prev
                            [(IF f.prevPrev # NullNode
                              THEN [l EXCEPT !.next[f.prevPrev] = f.current]
                              ELSE [l EXCEPT !.head = f.current])
                             EXCEPT !.next[f.prev] = l.next[f.current],
                                    !.next[f.current] = f.prev],
                      returned |-> f.current]
                ELSE [l |-> l, returned |-> f.current] :
                f \in {FindLoop(l, NullNode, NullNode, l.head, value)} })

\* The record of a call on the list: its name, the values inserted so far,
\* the values of the list from the head on before the call, the argument
\* and the node returned.
ListCall(op, inserted, before, value, returned) ==
    [op |-> op, inserted |-> inserted, before |-> before, value |-> value,
     returned |-> returned]

\* The values of the nodes met from the node on by following next, at most
\* fuel of them.
RECURSIVE ListFrom(_, _, _)
ListFrom(l, node, fuel) ==
    IF node = NullNode \/ fuel = 0 THEN <<>>
    ELSE <<node>> \o ListFrom(l, l.next[node], fuel - 1)

\* The values of the list from the head on; one value more than there are
\* nodes when the pointers run in a circle.
ListOrder(l) == ListFrom(l, l.head, Cardinality(DOMAIN l.next) + 1)

InitList ==
    ConstructedAs({1}, {Simple}, {Chaining},
                  ListCall("constructor", {}, <<>>, 0, NullNode))

ListInsert(value) ==
    /\ linkedList' = LinkedList_insert(linkedList, value)
    /\ last' = ListCall("insert", last.inserted \cup {value},
                        ListOrder(linkedList), value, NullNode)
    /\ UNCHANGED <<tableVars, skipList, bst, bfs>>

SearchMoveToFront(value) ==
    \E r \in {LinkedList_searchMoveToFront(linkedList, value)} :
        /\ linkedList' = r.l
        /\ last' = ListCall("searchMoveToFront", last.inserted,
                            ListOrder(linkedList), value, r.returned)
        /\ UNCHANGED <<tableVars, skipList, bst, bfs>>

SearchTranspose(value) ==
    \E r \in {LinkedList_searchTranspose(linkedList, value)} :
        /\ linkedList' = r.l
        /\ last' = ListCall("searchTranspose", last.inserted,
                            ListOrder(linkedList), value, r.returned)
        /\ UNCHANGED <<tableVars, skipList, bst, bfs>>

NextList ==
    \/ \E value \in ListValues : ListInsert(value)
    \/ \E value \in SearchedValues : SearchMoveToFront(value)
    \/ \E value \in SearchedValues : SearchTranspose(value)

SpecList == InitList /\ [][NextList]_vars

\* The sequence s without the value v.
Without(s, v) == SelectSeq(s, LAMBDA x : x # v)

\* The sequence s with the elements of the places k - 1 and k exchanged.
Swapped(s, k) ==
    [j \in 1 .. Len(s) |-> IF j = k - 1 THEN s[k]
                           ELSE IF j = k THEN s[k - 1] ELSE s[j]]

\* C37 (self-organizing list): after any sequence of insert, searchMoveToFront
\* and searchTranspose calls the list is finite and acyclic and holds
\* exactly the distinct values inserted; a successful searchMoveToFront(v)
\* makes v the head and keeps the order of the other values, a successful
\* searchTranspose(v) exchanges v with the node before it only (nothing
\* when v is the head), and an unsuccessful search changes nothing.
C37_SearchesPermute ==
    \A order \in {ListOrder(linkedList)} :
        /\ Len(order) = Cardinality(DOMAIN linkedList.next)
        /\ Range(order) = last.inserted
        /\ Cardinality(Range(order)) = Len(order)
        /\ \A v \in SearchedValues :
            \A m \in {LinkedList_searchMoveToFront(linkedList, v)},
               t \in {LinkedList_searchTranspose(linkedList, v)} :
                IF v \in last.inserted
                THEN /\ m.returned = v /\ t.returned = v
                     /\ m.l.head = v
                     /\ ListOrder(m.l) = <<v>> \o Without(order, v)
                     /\ ListOrder(t.l) = IF PlaceIn(order, v) = 1 THEN order
                                         ELSE Swapped(order, PlaceIn(order, v))
                ELSE /\ m.returned = NullNode /\ t.returned = NullNode
                     /\ m.l = linkedList /\ t.l = linkedList

\* C37 witness: searchTranspose has just found the third of at least 4
\* values and made it the second, the others staying in place.
C37_Witness ==
    /\ last.op = "searchTranspose"
    /\ last.returned = last.value
    /\ Len(last.before) >= 4
    /\ last.before[3] = last.value
    /\ ListOrder(linkedList) = Swapped(last.before, 3)
    /\ ListOrder(linkedList)[2] = last.value
    /\ ListOrder(linkedList)[4] = last.before[4]

=============================================================================
